---- MODULE Spec2Model ----
(***************************************************************************)
(* ACE-Step sampling pipeline (src/ace_step/pipeline_ace_step.py) and its  *)
(* ComfyUI nodes (src/ace_step_nodes.py).                                  *)
(*                                                                         *)
(* Representation.                                                         *)
(*   - A latent [batch, 8, 16, frame] is a sequence of rows (the batch     *)
(*     axis), each row a sequence of frame values (the time axis); every   *)
(*     operation of the pipeline is uniform over the channel and feature   *)
(*     axes, which are therefore left out.                                 *)
(*   - Latent values are fixed-point integers in units of 10^-2; velocity  *)
(*     predictions are numbers of tenths; timesteps are                    *)
(*     integers in [0, 1000], so t/1000 is a number of thousandths.        *)
(*   - Fractions given by the caller (retake_variance, guidance_interval,  *)
(*     ref_audio_strength, n_min, n_max) are numbers of quarters, which    *)
(*     binary floating point represents exactly; guidance scales are       *)
(*     numbers of tenths, the step of the node inputs.                     *)
(*   - Durations and repaint boundaries are numbers of samples at 44100    *)
(*     Hz (seconds * 44100), so that int(seconds * 44100 / 512 / 8) is     *)
(*     the truncating division by 4096.                                    *)
(***************************************************************************)
EXTENDS Integers, Sequences, FiniteSets, TLC

(***************************************************************************)
(* Bounds of the model.                                                    *)
(***************************************************************************)
MaxSteps == 3
MaxPad == 2
MaxSrc == 2
NearCap == 1
MaxSeed == 1
MaxPred == 1
MaxAvg == 2
MaxBatch == 3
MaxStr == 3
MaxList == 3
MaxFiles == 3
MaxInvocations == 2

(***************************************************************************)
(* Program constants.                                                      *)
(***************************************************************************)
num_train_timesteps == 1000
max_infer_fame_length == 2583
SamplesPerFrame == 4096
batch_size == 1

Min(a, b) == IF a < b THEN a ELSE b
Max(a, b) == IF a > b THEN a ELSE b
Abs(a) == IF a < 0 THEN -a ELSE a

\* Python int(): truncation toward zero of num / den (den > 0).
PyInt(num, den) == IF num >= 0 THEN num \div den ELSE -((-num) \div den)

\* int(seconds * 44100 / 512 / 8), seconds given as a number of samples.
ToFrame(samples) == PyInt(samples, SamplesPerFrame)

(***************************************************************************)
(* Python sequence slicing and tensor helpers along the frame axis.        *)
(***************************************************************************)
\* Python's normalisation of a slice bound k for a sequence of length n.
PyBound(k, n) == IF k < 0 THEN Max(n + k, 0) ELSE Min(k, n)

\* s[a:b] (0-based, half-open, negative bounds count from the end).
PySlice(s, a, b) ==
    LET lo == PyBound(a, Len(s))
        hi == PyBound(b, Len(s))
    IN  IF hi <= lo THEN << >> ELSE SubSeq(s, lo + 1, hi)

\* s[:b]
PyHead(s, b) == PySlice(s, 0, b)

\* s[a:]   (s[-0:] is the whole sequence, as in Python)
PyTail(s, a) == PySlice(s, a, Len(s))

Zeros(n) == [f \in 1..n |-> 0]

\* torch.nn.functional.pad(row, (l, r), "constant", 0); a negative amount crops.
PadRow(row, l, r) ==
    LET left == IF l >= 0 THEN Zeros(l) \o row ELSE PyTail(row, -l)
    IN  IF r >= 0 THEN left \o Zeros(r) ELSE PyHead(left, Len(left) + r)

FrameCount(lat) == IF Len(lat) = 0 THEN 0 ELSE Len(lat[1])

Unit == 10 * 10

(***************************************************************************)
(* External collaborators, modelled from their contracts.                  *)
(***************************************************************************)
\* The scheduler's shift (shift = 3.0): sigma -> 3 sigma / (1 + 2 sigma), on
\* timesteps in thousandths.
Shift(t) == (3 * 1000 * t) \div (1000 + 2 * t)

\* retrieve_timesteps(scheduler, n): n strictly decreasing timesteps, from 1000.
BaseTimesteps(n) ==
    [k \in 1..n |->
        Shift(IF n = 1 THEN num_train_timesteps
              ELSE num_train_timesteps - ((k - 1) * (num_train_timesteps - 1)) \div (n - 1))]

\* randn_tensor(shape, generator): the k-th draw of a generator seeded with
\* `seed`, whole numbers in -2..2, as one row of n frames.
NoiseVal(seed, draw, f) == ((seed * 3 + draw * 5 + f * 7) % 5) - 2

NoiseRow(seed, draw, n) == [f \in 1..n |-> NoiseVal(seed, draw, f) * Unit]

\* The denoising predictor: a deterministic black box from (latent, timestep,
\* conditioning) to a velocity, in tenths; pid ranges over a family of them,
\* the odd ones insensitive to the conditioning.
PredVal(pid, cond, t, f, x) ==
    10 * (((pid * 11 + (IF pid % 2 = 1 THEN 0 ELSE cond * 7) + f * 3 + t + x) % 5) - 2)

Predict(pid, cond, t, row) == [f \in 1..Len(row) |-> PredVal(pid, cond, t, f, row[f])]

\* Conditioning bundles produced by ace_step_transformer.encode.
CondFull == 0
CondNull == 1
CondNoLyric == 2
CondTarget == 3

\* One manual Euler update of a row: x + (t_next - t)/1000 * v.
EulerRow(row, v, t, t_next) ==
    [f \in 1..Len(row) |-> row[f] + ((t_next - t) * v[f]) \div 100]

\* scheduler.step(model_output, timestep, sample, omega): one integration step
\* from the schedule entry at step_index to the next one (0 after the last).
SchedulerStepRow(row, v, ts, step_index) ==
    EulerRow(row, v, ts[step_index],
             IF step_index < Len(ts) THEN ts[step_index + 1] ELSE 0)

(***************************************************************************)
(* Guidance fusion (ace_step/apg_guidance.py), on velocity rows in tenths. *)
(* A guidance scale is a fraction num/den of tenths.                       *)
(***************************************************************************)
\* cfg_forward: uncond + scale * (cond - uncond)
cfg_forward(cond, uncond, num, den) ==
    [f \in 1..Len(cond) |-> uncond[f] + (num * (cond[f] - uncond[f])) \div (den * 10)]

\* apg_forward: uncond + scale * adjusted_diff; the correction of the
\* difference by the running average is left out of the value, the update of
\* the momentum buffer is counted by the caller.
apg_forward(cond, uncond, num, den) ==
    [f \in 1..Len(cond) |-> uncond[f] + (num * (cond[f] - uncond[f])) \div (den * 10)]

Dot(a, b, n) == IF n = 0 THEN 0 ELSE LET RECURSIVE D(_)
                                         D(k) == IF k = 0 THEN 0 ELSE a[k] * b[k] + D(k - 1)
                                     IN D(n)

\* cfg_zero_star: zero output on the first zero_steps iterations when
\* use_zero_init, else uncond * alpha + scale * (cond - uncond * alpha) with
\* alpha the least-squares projection of cond on uncond.
cfg_zero_star(cond, uncond, num, den, idx, zero_steps, use_zero_init) ==
    IF idx < zero_steps /\ use_zero_init THEN Zeros(Len(cond))
    ELSE LET uu == Dot(uncond, uncond, Len(cond))
             alpha == IF uu = 0 THEN 0 ELSE (1000 * Dot(cond, uncond, Len(cond))) \div uu
         IN  [f \in 1..Len(cond) |->
                 LET ua == (uncond[f] * alpha) \div 1000
                 IN  ua + (num * (cond[f] - ua)) \div (den * 10)]

\* cfg_double_condition_forward:
\* (1 - s_text) * uncond + (s_text - s_lyric) * text_only + s_lyric * cond
cfg_double_condition_forward(cond, uncond, only_text, s_text, s_lyric) ==
    [f \in 1..Len(cond) |->
        ((10 - s_text) * uncond[f] + (s_text - s_lyric) * only_text[f]
            + s_lyric * cond[f]) \div 10]

(***************************************************************************)
(* State.                                                                  *)
(***************************************************************************)
VARIABLES
    pc,              \* position of the call in progress
    req,             \* the request (arguments of the call)
    run,             \* locals of the call after line 671 (schedule, noise draws)
    prep,            \* locals of the call after line 776 (mask, pads, caches)
    i,               \* loop index (0-based)
    target_latents,  \* the working latent, and the latent returned
    step_index,      \* the scheduler's internal step index (0: not started)
    momentum_buffer, \* number of updates of the call's MomentumBuffer
    iters,           \* history: one record per loop iteration
    err,             \* the exception that ended the call, "" if none
    zt_edit,         \* flow-edit: the target accumulator
    xt_tar,          \* flow-edit: the frozen target latent, << >> while None
    momentum_buffer_tar, \* flow-edit: number of updates of the target buffer
    draws,           \* flow-edit: draws taken from the random generator
    processed_input_seeds, \* set_seeds: the parsed input
    random_generators,     \* set_seeds: the seed each generator was given
    actual_seeds,          \* set_seeds: the seeds reported
    generators,      \* __call__: the state of the generators set_seeds returned
    first,           \* the finished earlier call on this pipeline object, << >> if none
    hooks,           \* forward hooks attached to the models, by site
    files,           \* nodes: the files that exist in the cache directory
    tracked,         \* AudioCacher: _files_to_cleanup_in_context
    ap,              \* nodes: the global pipeline handle
    ret              \* nodes: how the last call ended

t2mVars == << run, prep >>

editVars == << zt_edit, xt_tar, momentum_buffer_tar, draws >>

seedVars == << processed_input_seeds, random_generators, actual_seeds >>

callVars == << generators, first, hooks >>

nodeVars == << files, tracked, ap, ret >>

vars ==
    << pc, req, i, target_latents, step_index, momentum_buffer, iters, err,
       t2mVars, editVars, seedVars, callVars, nodeVars >>

\* the variables of the other operations while one operation runs
T2MIdle == run = << >> /\ prep = << >>

EditIdle == zt_edit = << >> /\ xt_tar = << >> /\ momentum_buffer_tar = 0 /\ draws = 0

SeedsIdle ==
    processed_input_seeds = << >> /\ random_generators = << >> /\ actual_seeds = << >>

CallIdle == generators = << >> /\ first = << >> /\ hooks = << >>

NodeIdle == files = {} /\ tracked = << >> /\ ap = "None" /\ ret = << >>

(***************************************************************************)
(* Requests.                                                               *)
(***************************************************************************)
zero_steps == 1
use_zero_init == TRUE
min_guidance_scale == 30

Tasks == {"text2music", "retake", "repaint", "extend", "audio2audio"}

\* omega_scale in tenths: the default 10.0 and 0.0
OmegaDefault == 100

OmegaScales == {0, OmegaDefault}

\* manual_seeds = None
NoSeed == -1

\* oss_steps: none, or two increasing entries of the base schedule.
OssChoices == {<< >>} \cup {o \in (1..MaxSteps) \X (1..MaxSteps) : o[1] < o[2]}

\* scheduler settings: [infer_step, oss_steps, omega_scale]
Schedules ==
    {[infer_step |-> n, oss_steps |-> o, omega_scale |-> OmegaDefault] :
        n \in 1..MaxSteps, o \in {<< >>}}
    \cup {[infer_step |-> MaxSteps, oss_steps |-> o, omega_scale |-> OmegaDefault] :
              o \in OssChoices \ {<< >>}}

GuidanceScales == {0, 10, 150}
CfgTypes == {"apg", "cfg", "cfg_star"}
Quarters == 0..4
DoubleScales == {<< 0, 0 >>, << 20, 0 >>, << 20, 30 >>}

\* guidance settings: [guidance_scale, cfg_type, guidance_interval,
\* guidance_interval_decay, guidance_scale_text, guidance_scale_lyric]
GuidanceAll ==
    {[guidance_scale |-> g, cfg_type |-> ct, guidance_interval |-> gi,
      guidance_interval_decay |-> d, guidance_scale_text |-> ds[1],
      guidance_scale_lyric |-> ds[2]] :
        g \in GuidanceScales, ct \in CfgTypes, gi \in {0, 2, 3, 4}, d \in {0, 4},
        ds \in DoubleScales}

GuidanceLite ==
    {gd \in GuidanceAll : /\ gd.cfg_type = "apg"
                          /\ gd.guidance_interval = 2
                          /\ gd.guidance_interval_decay = 0
                          /\ gd.guidance_scale_text = 0
                          /\ gd.guidance_scale \in {10, 150}}

\* task settings: [task, audio_duration, src_len, repaint_start, repaint_end,
\* retake_variance, audio2audio_enable, ref_len, ref_audio_strength]
TaskSetting(task, dur, src, rs, re, rv, a2a, ref, strength) ==
    [task |-> task, audio_duration |-> dur, src_len |-> src, repaint_start |-> rs,
     repaint_end |-> re, retake_variance |-> rv, audio2audio_enable |-> a2a,
     ref_len |-> ref, ref_audio_strength |-> strength]

Text2MusicTasks ==
    {TaskSetting("text2music", n * SamplesPerFrame, 0, 0, 0, 2, FALSE, 0, 2) : n \in {MaxSrc}}

RetakeTasks ==
    {TaskSetting("retake", n * SamplesPerFrame, 0, 0, 0, rv, FALSE, 0, 2) :
        n \in {MaxSrc}, rv \in {0, 2, 4}}

\* repaint: any span 0 <= start <= end <= clip length of a clip of MaxSrc + 1 frames
RepaintTasks ==
    {TaskSetting("repaint", (MaxSrc + 1) * SamplesPerFrame, MaxSrc + 1,
                 sp[1] * SamplesPerFrame, sp[2] * SamplesPerFrame, rv, FALSE, 0, 2) :
        sp \in {x \in (0..(MaxSrc + 1)) \X (0..(MaxSrc + 1)) : x[1] <= x[2]},
        rv \in {0, 1, 2, 4}}

\* extend by l frames on the left and r frames on the right of a short clip
ExtendTasks ==
    {TaskSetting("extend", n * SamplesPerFrame, n, -(l * SamplesPerFrame),
                 (n + r) * SamplesPerFrame, rv, FALSE, 0, 2) :
        n \in 1..MaxSrc, l \in 0..MaxPad, r \in 0..MaxPad, rv \in {2, 4}}

\* extend of a clip whose length is at or just under the maximum frame count
\* (retake_variance = 1.0, as the extend node passes it)
LongExtendTasks ==
    {TaskSetting("extend", n * SamplesPerFrame, n, -(l * SamplesPerFrame),
                 (n + r) * SamplesPerFrame, 4, FALSE, 0, 2) :
        n \in (max_infer_fame_length - NearCap)..max_infer_fame_length,
        l \in 0..MaxPad, r \in 0..MaxPad}

\* repaint and extend called with src_audio_path = None: a span over the whole
\* clip or its first frame, no padding or one frame on the left
NoSourceTasks ==
    {TaskSetting("repaint", MaxSrc * SamplesPerFrame, 0, 0, e * SamplesPerFrame,
                 4, FALSE, 0, 2) : e \in {1, MaxSrc}}
    \cup {TaskSetting("extend", MaxSrc * SamplesPerFrame, 0, -(l * SamplesPerFrame),
                      MaxSrc * SamplesPerFrame, 4, FALSE, 0, 2) : l \in {0, 1}}

Audio2AudioTasks ==
    {TaskSetting("audio2audio", n * SamplesPerFrame, 0, 0, 0, 2, TRUE, n, st) :
        n \in {MaxSrc}, st \in 1..4}

Request(ts, sc, gd, seed, retake_seed, pid) ==
    [task |-> ts.task, audio_duration |-> ts.audio_duration, src_len |-> ts.src_len,
     repaint_start |-> ts.repaint_start, repaint_end |-> ts.repaint_end,
     retake_variance |-> ts.retake_variance,
     audio2audio_enable |-> ts.audio2audio_enable, ref_len |-> ts.ref_len,
     ref_audio_strength |-> ts.ref_audio_strength,
     infer_step |-> sc.infer_step, oss_steps |-> sc.oss_steps,
     omega_scale |-> sc.omega_scale,
     guidance_scale |-> gd.guidance_scale, cfg_type |-> gd.cfg_type,
     guidance_interval |-> gd.guidance_interval,
     guidance_interval_decay |-> gd.guidance_interval_decay,
     guidance_scale_text |-> gd.guidance_scale_text,
     guidance_scale_lyric |-> gd.guidance_scale_lyric,
     seed |-> seed, retake_seed |-> retake_seed, pid |-> pid]

ShortTasks == Text2MusicTasks \cup RetakeTasks \cup RepaintTasks \cup ExtendTasks
              \cup Audio2AudioTasks

\* One representative setting of every task, for the sweep over guidance settings.
TaskLite ==
    {ts \in ShortTasks :
        /\ ts.retake_variance \in {2, 4}
        /\ ts.task = "repaint" => (ts.repaint_start = SamplesPerFrame
                                   /\ ts.repaint_end = 2 * SamplesPerFrame
                                   /\ ts.retake_variance = 4)
        /\ ts.task = "extend" => (ts.src_len = MaxSrc /\ ts.repaint_start = -SamplesPerFrame
                                  /\ ts.repaint_end = ts.audio_duration
                                  /\ ts.retake_variance = 4)
        /\ ts.task = "retake" => ts.retake_variance = 2
        /\ ts.task = "audio2audio" => ts.ref_audio_strength = 2}

T2MRequests ==
    \* every task setting, under the light guidance settings
    {Request(ts, sc, gd, seed, rseed, pid) :
        ts \in ShortTasks, sc \in Schedules, gd \in GuidanceLite,
        seed \in {0}, rseed \in {0, MaxSeed}, pid \in {0, MaxPred}}
    \cup
    \* every guidance setting, under one setting of each task
    {Request(ts, sc, gd, seed, rseed, pid) :
        ts \in TaskLite, sc \in Schedules, gd \in GuidanceAll,
        seed \in {0}, rseed \in {MaxSeed}, pid \in {0}}
    \cup
    \* another omega_scale, under one setting of each task
    {Request(ts, [sc EXCEPT !.omega_scale = w], gd, seed, rseed, pid) :
        ts \in TaskLite, sc \in {s \in Schedules : s.oss_steps = << >>},
        w \in OmegaScales \ {OmegaDefault},
        gd \in {g \in GuidanceLite : g.guidance_scale = 150},
        seed \in {0}, rseed \in {MaxSeed}, pid \in {0}}
    \cup
    \* no source clip
    {Request(ts, sc, gd, seed, rseed, pid) :
        ts \in NoSourceTasks, sc \in {s \in Schedules : s.oss_steps = << >>},
        gd \in {g \in GuidanceLite : g.guidance_scale = 150},
        seed \in {0}, rseed \in {MaxSeed}, pid \in {0}}
    \cup
    \* long clips, one step
    {Request(ts, sc, gd, seed, rseed, pid) :
        ts \in LongExtendTasks, sc \in {s \in Schedules : s.infer_step = 1},
        gd \in {g \in GuidanceLite : g.guidance_scale = 10},
        seed \in {0}, rseed \in {MaxSeed}, pid \in {0}}

(***************************************************************************)
(* __call__: task dispatch (lines 1132-1194), and the part of              *)
(* text2music_diffusion_process before the retake branch (lines 573-671).  *)
(***************************************************************************)
\* if audio2audio_enable and ref_audio_input is not None: task = "audio2audio"
EffectiveTask(c) ==
    IF c.audio2audio_enable /\ c.ref_len > 0 THEN "audio2audio" ELSE c.task

\* add_retake_noise = task in ("retake", "repaint", "extend")
add_retake_noise(task) == task \in {"retake", "repaint", "extend"}

\* ref_latents is not None
HasRef(c) == c.audio2audio_enable /\ c.ref_len > 0

\* frame_length before any extend padding (lines 613-618)
InitFrameLength(c) ==
    IF HasRef(c) THEN c.ref_len
    ELSE IF c.src_len > 0 THEN c.src_len
    ELSE ToFrame(c.audio_duration)

SeqMax(s) == CHOOSE m \in {s[k] : k \in 1..Len(s)} : \A k \in 1..Len(s) : s[k] <= m

\* infer_steps = max(oss_steps) when oss_steps is given (line 621)
InferSteps(c) == IF Len(c.oss_steps) > 0 THEN SeqMax(c.oss_steps) ELSE c.infer_step

\* The schedule of the run (lines 620-649): the scheduler's own schedule, or
\* the entries picked by oss_steps, passed through the scheduler again.
Timesteps(oss_steps, infer_steps) ==
    IF Len(oss_steps) > 0
    THEN [k \in 1..Len(oss_steps) |-> Shift(BaseTimesteps(infer_steps)[oss_steps[k]])]
    ELSE BaseTimesteps(infer_steps)

\* src_latents = infer_latents(src_audio_path): one row, frame f holding the
\* value base + f (all frames distinct and non-zero); None is << >>.
ClipLatents(n, base) == IF n = 0 THEN << >> ELSE << [f \in 1..n |-> (base + f) * Unit] >>

\* torch.Generator(device).manual_seed(seed): a generator that has drawn nothing
ManualSeed(seed) == [seed |-> seed, draws |-> 0]

\* the generator after one draw
Advanced(generator) == [generator EXCEPT !.draws = @ + 1]

\* randn_tensor((bsz, 8, 16, n), generator): the next draw of the generator
NoiseLatents(generator, n) ==
    [b \in 1..batch_size |-> NoiseRow(generator.seed, generator.draws, n)]

\* The locals of the call after line 671, g the generators set_seeds returned.
RunLocals(c, g) ==
    [ task                |-> EffectiveTask(c),
      add_retake_noise    |-> add_retake_noise(EffectiveTask(c)),
      \* if task == "retake": repaint_start = 0; repaint_end = audio_duration
      repaint_start_frame |-> ToFrame(IF EffectiveTask(c) = "retake" THEN 0
                                      ELSE c.repaint_start),
      repaint_end_frame   |-> ToFrame(IF EffectiveTask(c) = "retake" THEN c.audio_duration
                                      ELSE c.repaint_end),
      frame_length        |-> InitFrameLength(c),
      infer_steps         |-> InferSteps(c),
      timesteps           |-> Timesteps(c.oss_steps, InferSteps(c)),
      target_latents      |-> NoiseLatents(g.base, InitFrameLength(c)),
      retake_latents      |-> IF add_retake_noise(EffectiveTask(c))
                              THEN NoiseLatents(g.retake, InitFrameLength(c))
                              ELSE << >>,
      src_latents         |-> ClipLatents(c.src_len, 10),
      ref_latents         |-> IF HasRef(c) THEN ClipLatents(c.ref_len, 20) ELSE << >> ]

(***************************************************************************)
(* text2music_diffusion_process: retake / repaint / extend set-up          *)
(* (lines 661-776).                                                        *)
(***************************************************************************)
\* a variant that treats only guidance_scale 0.0 as unguided
GuidanceUnlessZero(guidance_scale) == guidance_scale # 0

\* guidance_scale in tenths: 0.0 and 1.0 disable classifier-free guidance.
do_classifier_free_guidance(guidance_scale) ==
    ~(guidance_scale = 0 \/ guidance_scale = 10)

do_double_condition_guidance(guidance_scale_text, guidance_scale_lyric) ==
    guidance_scale_text > 10 /\ guidance_scale_lyric > 10

\* n_min = int(infer_steps * (1 - retake_variance)), retake_variance in quarters.
RepaintNMin(infer_steps, retake_variance) == (infer_steps * (4 - retake_variance)) \div 4

\* cos and sin of retake_variance * pi / 2, in thousandths.
CosMilli(q) == CASE q = 0 -> 1000 [] q = 1 -> 924 [] q = 2 -> 707 [] q = 3 -> 383 [] OTHER -> 0

SinMilli(q) == CosMilli(4 - q)

\* cos(v) * target + sin(v) * retake, row by row.
QuarterSineBlend(q, target, retake) ==
    [b \in 1..Len(target) |->
        [f \in 1..Len(target[b]) |->
            (CosMilli(q) * target[b][f] + SinMilli(q) * retake[b][f]) \div 1000]]

\* is_extend = (repaint_start_frame < 0) or (repaint_end_frame > frame_length)
IsExtend(rs, re, frame_length) == rs < 0 \/ re > frame_length

\* a variant that takes every non-empty span for a repaint
SpanNotEmpty(rs, re, frame_length) == re - rs # 0 \/ IsExtend(rs, re, frame_length)

\* is_repaint = repaint_end_frame - repaint_start_frame != frame_length, or is_extend
IsRepaint(rs, re, frame_length) == re - rs # frame_length \/ IsExtend(rs, re, frame_length)

\* repaint_mask[:, :, :, a:b] = 1.0 on a zero mask of n frames.
MaskRow(n, a, b) ==
    [f \in 1..n |-> IF PyBound(a, n) < f /\ f <= PyBound(b, n) THEN 1 ELSE 0]

\* torch.where(mask == 1.0, x, y) on rows.
WhereRow(mask, x, y) == [f \in 1..Len(mask) |-> IF mask[f] = 1 THEN x[f] ELSE y[f]]

PrepRecord(is_repaint, is_extend, lp, rp, rt, lt, fl, x0, mask, target, z0, has_right, to_right, has_left, to_left, ok) ==
    [ is_repaint             |-> is_repaint,
      is_extend              |-> is_extend,
      left_pad_frame_length  |-> lp,
      right_pad_frame_length |-> rp,
      right_trim_length      |-> rt,
      left_trim_length       |-> lt,
      frame_length           |-> fl,
      x0                     |-> x0,
      repaint_mask           |-> mask,
      target_latents         |-> target,
      z0                     |-> z0,
      has_right_cache        |-> has_right,
      to_right_pad_gt_latents |-> to_right,
      has_left_cache         |-> has_left,
      to_left_pad_gt_latents |-> to_left,
      assert_ok              |-> ok ]

\* No retake noise (text2music, audio2audio): lines 651-659 only.
PlainPrep(r) ==
    PrepRecord(FALSE, FALSE, 0, 0, 0, 0, r.frame_length, r.src_latents, << >>,
               r.target_latents, << >>, FALSE, << >>, FALSE, << >>, TRUE)

\* Retake, and a repaint span of the full length (lines 684-688).
RetakePrep(r, rv) ==
    PrepRecord(FALSE, FALSE, 0, 0, 0, 0, r.frame_length, r.src_latents, << >>,
               QuarterSineBlend(rv, r.target_latents, r.retake_latents),
               << >>, FALSE, << >>, FALSE, << >>, TRUE)

\* Repaint without extension (lines 689-703).
RepaintPrep(r, rv) ==
    LET mask == MaskRow(r.frame_length, r.repaint_start_frame, r.repaint_end_frame)
        blend == QuarterSineBlend(rv, r.target_latents, r.retake_latents)
    IN  PrepRecord(TRUE, FALSE, 0, 0, 0, 0, r.frame_length, r.src_latents, mask,
                   r.target_latents,
                   [b \in 1..Len(blend) |-> WhereRow(mask, blend[b], r.target_latents[b])],
                   FALSE, << >>, FALSE, << >>, TRUE)

\* Left side of the extend set-up (lines 705-730), on the source row:
\* pad, cap, cache.
ExtendLeft(src, rs) ==
    LET left_pad == IF rs < 0 THEN Abs(rs) ELSE 0
        frame_length == left_pad + Len(src)
        padded == PadRow(src, left_pad, 0)
    IN  IF rs < 0 /\ frame_length > max_infer_fame_length
        THEN [ pad |-> left_pad, trim |-> frame_length - max_infer_fame_length,
               cached |-> TRUE,
               \* extend_gt_latents = extend_gt_latents[:, :, :, :max]
               gt |-> PyHead(padded, max_infer_fame_length),
               \* to_right_pad_gt_latents = extend_gt_latents[:, :, :, -right_trim_length:]
               cache |-> PyTail(PyHead(padded, max_infer_fame_length),
                                -(frame_length - max_infer_fame_length)) ]
        ELSE [ pad |-> left_pad, trim |-> 0, cached |-> FALSE, gt |-> padded,
               cache |-> << >> ]

\* Right side of the extend set-up (lines 732-748), on the row gt left by the
\* left side; src_len is src_latents_length, the length before any padding.
ExtendRight(gt, re, src_len) ==
    LET right_pad == IF re > src_len THEN re - Len(gt) ELSE 0
        frame_length == Len(gt) + right_pad
        padded == PadRow(gt, 0, right_pad)
    IN  IF re > src_len /\ frame_length > max_infer_fame_length
        THEN [ pad |-> right_pad, trim |-> frame_length - max_infer_fame_length,
               cached |-> TRUE,
               \* extend_gt_latents = extend_gt_latents[:, :, :, -max:]
               gt |-> PyTail(padded, -max_infer_fame_length),
               \* to_left_pad_gt_latents = extend_gt_latents[:, :, :, :left_trim_length]
               cache |-> PyHead(PyTail(padded, -max_infer_fame_length),
                                frame_length - max_infer_fame_length) ]
        ELSE [ pad |-> right_pad, trim |-> 0, cached |-> FALSE, gt |-> padded,
               cache |-> << >> ]

\* repaint_mask of the extend set-up (lines 750-756)
ExtendMask(n, left_pad, right_pad) ==
    [f \in 1..n |->
        IF \/ (left_pad > 0 /\ f <= PyBound(left_pad, n))
           \/ (right_pad > 0 /\ f > PyBound(-right_pad, n))
        THEN 1 ELSE 0]

\* target_latents of the extend set-up (lines 758-771), one row
ExtendTarget(target, retake, left_pad, right_pad, left_trim, right_trim) ==
    (IF left_pad > 0 THEN PyHead(retake, left_pad) ELSE << >>)
    \o PySlice(target, left_trim, Len(target) - right_trim)
    \o (IF right_pad > 0 THEN PyTail(retake, -right_pad) ELSE << >>)

\* Extend set-up (lines 704-776).
ExtendPrep(r) ==
    LET lft == ExtendLeft(r.src_latents[1], r.repaint_start_frame)
        rgt == ExtendRight(lft.gt, r.repaint_end_frame, Len(r.src_latents[1]))
        tgt == ExtendTarget(r.target_latents[1], r.retake_latents[1],
                            lft.pad, rgt.pad, rgt.trim, lft.trim)
    IN  PrepRecord(TRUE, TRUE, lft.pad, rgt.pad, lft.trim, rgt.trim, Len(rgt.gt),
                   << rgt.gt >>, ExtendMask(Len(rgt.gt), lft.pad, rgt.pad),
                   << tgt >>, << tgt >>,
                   lft.cached, << lft.cache >>, rgt.cached, << rgt.cache >>,
                   \* assert target_latents.shape[-1] == x0.shape[-1]
                   Len(tgt) = Len(rgt.gt))

\* src_latents is None where the set-up reads it: zt_edit = x0.clone() of the
\* repaint branch (line 702), gt_latents.shape[-1] of the extend branch
\* (line 708); the retake branch reads no source
NoSourceRaises(r) ==
    /\ r.add_retake_noise
    /\ r.src_latents = << >>
    /\ IsRepaint(r.repaint_start_frame, r.repaint_end_frame, r.frame_length)

\* The locals of the call when the set-up raises for the missing source.
NoSourcePrep(r) ==
    PrepRecord(TRUE, IsExtend(r.repaint_start_frame, r.repaint_end_frame, r.frame_length),
               0, 0, 0, 0, r.frame_length, << >>, << >>, r.target_latents, << >>,
               FALSE, << >>, FALSE, << >>, TRUE)

\* The locals of the call after line 776.
PrepLocals(r, rv) ==
    IF ~r.add_retake_noise THEN PlainPrep(r)
    ELSE IF IsExtend(r.repaint_start_frame, r.repaint_end_frame, r.frame_length)
         THEN ExtendPrep(r)
    ELSE IF IsRepaint(r.repaint_start_frame, r.repaint_end_frame, r.frame_length)
         THEN RepaintPrep(r, rv)
    ELSE RetakePrep(r, rv)

(***************************************************************************)
(* Audio2audio pre-noise: add_latents_noise (lines 514-533).               *)
(***************************************************************************)
\* (u * num_train_timesteps).long() for variance = 1 - ref_audio_strength,
\* the strength given in quarters.
NoiseQuery(ref_audio_strength) == ((4 - ref_audio_strength) * num_train_timesteps) \div 4

\* torch.cdist(indices, timesteps) on one-dimensional points: the distance of
\* the query to each schedule entry
cdist(q, ts) == [k \in 1..Len(ts) |-> Abs(q - ts[k])]

RECURSIVE ArgminLastScan(_, _, _)
\* a variant of the scan that keeps the last of several minimal entries
ArgminLastScan(d, k, best) ==
    IF k > Len(d) THEN best
    ELSE ArgminLastScan(d, k + 1, IF d[k] <= d[best] THEN k ELSE best)

RECURSIVE ArgminScan(_, _, _)
\* torch.argmin scanning from entry k on, best the first minimal entry so far
ArgminScan(d, k, best) ==
    IF k > Len(d) THEN best
    ELSE ArgminScan(d, k + 1, IF d[k] < d[best] THEN k ELSE best)

\* nearest_idx = torch.argmin(torch.cdist(indices, timesteps), dim=1), as a
\* 1-based position of the schedule
NearestIdx(ts, q) == ArgminScan(cdist(q, ts), 2, 1)

\* noisy_image = sigma * noise + (1.0 - sigma) * gt_latents, sigma = sigmas[k].
add_latents_noise(gt_latents, q, noise, ts) ==
    [b \in 1..Len(noise) |->
        [f \in 1..Len(noise[b]) |->
            (ts[NearestIdx(ts, q)] * noise[b][f]
                + (1000 - ts[NearestIdx(ts, q)]) * gt_latents[1][f]) \div 1000]]

\* guidance interval (lines 785-786), guidance_interval in quarters.
start_idx(n, guidance_interval) == (n * (4 - guidance_interval)) \div 8

end_idx(n, guidance_interval) == (n * (guidance_interval + 4)) \div 8

(***************************************************************************)
(* text2music_diffusion_process: the step loop (lines 902-1052), on the    *)
(* state of the call in progress.                                          *)
(***************************************************************************)
num_inference_steps == Len(run.timesteps)

\* t of the current iteration, and the next schedule entry (0 after the last)
CurT == run.timesteps[i + 1]

NextT == IF i + 1 < Len(run.timesteps) THEN run.timesteps[i + 2] ELSE 0

\* init_timestep (lines 778-780)
init_timestep == IF HasRef(req) THEN NoiseQuery(req.ref_audio_strength) ELSE 1000

\* a variant of the skip test that also skips the initial timestep itself
SkipsAtOrAboveInit(t, init) == t >= init

\* if t > init_timestep: continue
SkipsInitTimestep(t, init) == t > init

n_min == RepaintNMin(run.infer_steps, req.retake_variance)

\* if is_repaint: if i < n_min: continue
SkipsBeforeNMin == prep.is_repaint /\ i < n_min

\* is_in_guidance_interval = start_idx <= i < end_idx (line 918)
InGuidanceInterval(k, n, guidance_interval) ==
    start_idx(n, guidance_interval) <= k /\ k < end_idx(n, guidance_interval)

\* line 919
IsGuided ==
    /\ InGuidanceInterval(i, num_inference_steps, req.guidance_interval)
    /\ do_classifier_free_guidance(req.guidance_scale)

WindowSize == end_idx(num_inference_steps, req.guidance_interval)
              - start_idx(num_inference_steps, req.guidance_interval)

\* progress = (i - start_idx) / (end_idx - start_idx - 1) divides by zero
DecayDividesByZero ==
    IsGuided /\ req.guidance_interval_decay > 0 /\ WindowSize - 1 = 0

\* current_guidance_scale (lines 921-933), a fraction num/den of tenths
CurrentGuidanceScale ==
    IF req.guidance_interval_decay > 0
    THEN [num |-> req.guidance_scale * (WindowSize - 1) * 4
                   - (req.guidance_scale - min_guidance_scale)
                     * (i - start_idx(num_inference_steps, req.guidance_interval))
                     * req.guidance_interval_decay,
          den |-> (WindowSize - 1) * 4]
    ELSE [num |-> req.guidance_scale, den |-> 1]

\* (1 - t) * x0 + t * z0; x0 has the single source row, broadcast over z0's rows
Interpolate(x0, z0, t) ==
    [b \in 1..Len(z0) |->
        [f \in 1..Len(z0[b]) |-> ((1000 - t) * x0[1][f] + t * z0[b][f]) \div 1000]]

\* lines 909-912: zt_src = (1 - t_i) * x0 + t_i * z0;
\* target_latents = zt_edit + zt_src - x0, with zt_edit = x0.clone()
RepaintReinit(x0, z0, t) ==
    [b \in 1..Len(z0) |->
        [f \in 1..Len(z0[b]) |->
            x0[1][f] + (((1000 - t) * x0[1][f] + t * z0[b][f]) \div 1000) - x0[1][f]]]

\* latents fed to the predictor in the current iteration
LoopLatents ==
    IF prep.is_repaint /\ i = n_min THEN RepaintReinit(prep.x0, prep.z0, CurT)
    ELSE target_latents

\* which fusion function a guided iteration calls (lines 984-1017)
FusionKind(cfg_type, double) == IF double THEN "double" ELSE cfg_type

CurFusion ==
    FusionKind(req.cfg_type,
               do_double_condition_guidance(req.guidance_scale_text,
                                            req.guidance_scale_lyric))

\* number of decode calls of an iteration (lines 939-982, 1021-1028)
DecodeCalls(guided, double) == IF guided THEN (IF double THEN 3 ELSE 2) ELSE 1

\* the fused prediction of a guided iteration for one row (lines 984-1017)
Fused(kind, cond, uncond, only_text, s, k, s_text, s_lyric) ==
    CASE kind = "double" -> cfg_double_condition_forward(cond, uncond, only_text,
                                                         s_text, s_lyric)
      [] kind = "apg" -> apg_forward(cond, uncond, s.num, s.den)
      [] kind = "cfg" -> cfg_forward(cond, uncond, s.num, s.den)
      [] OTHER -> cfg_zero_star(cond, uncond, s.num, s.den, k, zero_steps, use_zero_init)

\* a variant whose unguided branch decodes with the null conditioning
NoisePredRowNull(row) ==
    IF IsGuided
    THEN Fused(CurFusion, Predict(req.pid, CondFull, CurT, row),
               Predict(req.pid, CondNull, CurT, row),
               Predict(req.pid, CondNoLyric, CurT, row),
               CurrentGuidanceScale, i, req.guidance_scale_text,
               req.guidance_scale_lyric)
    ELSE Predict(req.pid, CondNull, CurT, row)

\* noise_pred of the current iteration for one row
NoisePredRow(row) ==
    IF IsGuided
    THEN Fused(CurFusion, Predict(req.pid, CondFull, CurT, row),
               Predict(req.pid, CondNull, CurT, row),
               Predict(req.pid, CondNoLyric, CurT, row),
               CurrentGuidanceScale, i, req.guidance_scale_text,
               req.guidance_scale_lyric)
    ELSE Predict(req.pid, CondFull, CurT, row)

\* lines 1030-1044: manual Euler update of a row, then the mask splice against
\* the directly interpolated preserved trajectory zt_src
RepaintAdvanceRow(mask, row, v, t, t_im1, zt_src) ==
    WhereRow(mask, EulerRow(row, v, t, t_im1), zt_src)

\* one loop iteration: the latents fed to the predictor, the number of decode
\* calls, the fusion function called, the prediction used to advance the
\* latent, how it was advanced and the scheduler.step calls made
IterRecord(k, t, kind, decode, fusion, advance, reinit, input, pred, step) ==
    [i |-> k, t |-> t, kind |-> kind, decode |-> decode, fusion |-> fusion,
     advance |-> advance, reinit |-> reinit, input |-> input, pred |-> pred,
     step |-> step]

\* a variant that leaves omega at the scheduler's default
StepCallDefaultOmega(idx, omega) == [step_index |-> idx, omega |-> 0]

\* scheduler.step(..., omega=omega_scale) at the scheduler's step index idx
StepCall(idx, omega) == [step_index |-> idx, omega |-> omega]

InLoop == pc = "loop" /\ i < num_inference_steps

(***************************************************************************)
(* Actions of one sampling call through text2music_diffusion_process.      *)
(***************************************************************************)
T2MInit ==
    /\ pc = "call"
    /\ req \in T2MRequests
    /\ run = << >>
    /\ prep = << >>
    /\ i = 0
    /\ target_latents = << >>
    /\ step_index = 0
    /\ momentum_buffer = 0
    /\ iters = << >>
    /\ err = ""
    /\ EditIdle
    /\ SeedsIdle
    /\ CallIdle
    /\ NodeIdle

\* a variant that draws the seed whatever manual_seeds is
AnySeed(manual_seeds) == 0..MaxSeed

\* set_seeds as __call__ uses it (lines 1137-1138, 162-175): the seed of the
\* generator, drawn by torch.randint when manual_seeds is None
SeedChoices(manual_seeds) ==
    IF manual_seeds = NoSeed THEN 0..MaxSeed ELSE {manual_seeds}

\* __call__ up to the call of text2music_diffusion_process, and lines 573-671
Call ==
    /\ pc = "call"
    /\ \E seed \in SeedChoices(req.seed), retake_seed \in SeedChoices(req.retake_seed) :
          LET g == [base |-> ManualSeed(seed), retake |-> ManualSeed(retake_seed)]
          IN  /\ run' = RunLocals(req, g)
              /\ generators' =
                     [base |-> Advanced(g.base),
                      retake |-> IF add_retake_noise(EffectiveTask(req))
                                 THEN Advanced(g.retake) ELSE g.retake]
    /\ pc' = "prepare"
    /\ step_index' = 0
    /\ UNCHANGED << req, prep, i, target_latents, momentum_buffer, iters, err >>
    /\ UNCHANGED << editVars, seedVars, first, hooks >>
    /\ UNCHANGED nodeVars

\* lines 672-900: the retake / repaint / extend set-up, the audio2audio
\* pre-noise, the guidance interval and the conditioning
Prepare ==
    /\ pc = "prepare"
    /\ ~NoSourceRaises(run)
    /\ LET p == PrepLocals(run, req.retake_variance)
       IN  /\ prep' = p
           /\ IF ~p.assert_ok
              THEN /\ pc' = "error"
                   /\ err' = "AssertionError"
                   /\ target_latents' = p.target_latents
              ELSE /\ pc' = "loop"
                   /\ err' = err
                   /\ target_latents' =
                        IF HasRef(req)
                        THEN add_latents_noise(run.ref_latents,
                                               NoiseQuery(req.ref_audio_strength),
                                               p.target_latents, run.timesteps)
                        ELSE p.target_latents
    /\ i' = 0
    /\ momentum_buffer' = 0
    /\ UNCHANGED << req, run, step_index, iters >>
    /\ UNCHANGED << editVars, seedVars, callVars >>
    /\ UNCHANGED nodeVars

\* lines 702 and 708 with src_latents None: 'NoneType' object has no attribute
PrepareNoSource ==
    /\ pc = "prepare"
    /\ NoSourceRaises(run)
    /\ prep' = NoSourcePrep(run)
    /\ pc' = "error"
    /\ err' = "AttributeError"
    /\ target_latents' = run.target_latents
    /\ i' = 0
    /\ momentum_buffer' = 0
    /\ UNCHANGED << req, run, step_index, iters >>
    /\ UNCHANGED << editVars, seedVars, callVars >>
    /\ UNCHANGED nodeVars

\* lines 903-904
IterSkipInitTimestep ==
    /\ InLoop
    /\ SkipsInitTimestep(CurT, init_timestep)
    /\ iters' = Append(iters, IterRecord(i, CurT, "skip_init", 0, "none", "none", FALSE,
                                         << >>, << >>, << >>))
    /\ i' = i + 1
    /\ UNCHANGED << pc, req, run, prep, target_latents, step_index, momentum_buffer, err >>
    /\ UNCHANGED << editVars, seedVars, callVars >>
    /\ UNCHANGED nodeVars

\* lines 906-908
IterSkipBeforeNMin ==
    /\ InLoop
    /\ ~SkipsInitTimestep(CurT, init_timestep)
    /\ SkipsBeforeNMin
    /\ iters' = Append(iters, IterRecord(i, CurT, "skip_n_min", 0, "none", "none", FALSE,
                                         << >>, << >>, << >>))
    /\ i' = i + 1
    /\ UNCHANGED << pc, req, run, prep, target_latents, step_index, momentum_buffer, err >>
    /\ UNCHANGED << editVars, seedVars, callVars >>
    /\ UNCHANGED nodeVars

\* lines 921-925: the decay's progress divides by a window of one step
IterDecayError ==
    /\ InLoop
    /\ ~SkipsInitTimestep(CurT, init_timestep)
    /\ ~SkipsBeforeNMin
    /\ DecayDividesByZero
    /\ pc' = "error"
    /\ err' = "ZeroDivisionError"
    /\ target_latents' = LoopLatents
    /\ UNCHANGED << req, run, prep, i, step_index, momentum_buffer, iters >>
    /\ UNCHANGED << editVars, seedVars, callVars >>
    /\ UNCHANGED nodeVars

\* lines 906-1044: an executed iteration of a repaint or extend run
IterRepaint ==
    /\ InLoop
    /\ ~SkipsInitTimestep(CurT, init_timestep)
    /\ ~SkipsBeforeNMin
    /\ ~DecayDividesByZero
    /\ prep.is_repaint /\ i >= n_min
    /\ LET zt_src == Interpolate(prep.x0, prep.z0, NextT)
           latents == LoopLatents
           noise_pred == [b \in 1..Len(latents) |-> NoisePredRow(latents[b])]
       IN  /\ target_latents' =
                 [b \in 1..Len(latents) |->
                     RepaintAdvanceRow(prep.repaint_mask, latents[b],
                                       noise_pred[b], CurT, NextT, zt_src[b])]
           /\ iters' = Append(iters,
                  IterRecord(i, CurT, "exec",
                      DecodeCalls(IsGuided,
                                  do_double_condition_guidance(req.guidance_scale_text,
                                                               req.guidance_scale_lyric)),
                      IF IsGuided THEN CurFusion ELSE "none", "euler", i = n_min,
                      latents, noise_pred, << >>))
    /\ momentum_buffer' = IF IsGuided /\ CurFusion = "apg" THEN momentum_buffer + 1
                          ELSE momentum_buffer
    /\ i' = i + 1
    /\ UNCHANGED << pc, req, run, prep, step_index, err >>
    /\ UNCHANGED << editVars, seedVars, callVars >>
    /\ UNCHANGED nodeVars

\* lines 915-1028 and 1046-1052: an executed iteration of any other run
IterStep ==
    /\ InLoop
    /\ ~SkipsInitTimestep(CurT, init_timestep)
    /\ ~SkipsBeforeNMin
    /\ ~DecayDividesByZero
    /\ ~(prep.is_repaint /\ i >= n_min)
    /\ LET idx == IF step_index = 0 THEN i + 1 ELSE step_index
           noise_pred == [b \in 1..Len(target_latents) |-> NoisePredRow(target_latents[b])]
       IN  /\ target_latents' =
                [b \in 1..Len(target_latents) |->
                    SchedulerStepRow(target_latents[b], noise_pred[b], run.timesteps, idx)]
           /\ step_index' = idx + 1
           /\ iters' = Append(iters,
                  IterRecord(i, CurT, "exec",
                      DecodeCalls(IsGuided,
                                  do_double_condition_guidance(req.guidance_scale_text,
                                                               req.guidance_scale_lyric)),
                      IF IsGuided THEN CurFusion ELSE "none", "step", FALSE,
                      target_latents, noise_pred, << StepCall(idx, req.omega_scale) >>))
    /\ momentum_buffer' = IF IsGuided /\ CurFusion = "apg" THEN momentum_buffer + 1
                          ELSE momentum_buffer
    /\ i' = i + 1
    /\ UNCHANGED << pc, req, run, prep, err >>
    /\ UNCHANGED << editVars, seedVars, callVars >>
    /\ UNCHANGED nodeVars

(***************************************************************************)
(* Extend reassembly and return (lines 1054-1063).                         *)
(***************************************************************************)
\* torch.cat([a, b], dim=-1): frames of b after the frames of a, row by row
CatFrames(a, b) == [r \in 1..Len(a) |-> a[r] \o b[r]]

\* torch.cat([a, b], dim=0): rows of b after the rows of a
CatRows(a, b) == a \o b

\* lines 1055-1058: the latent after a cached tail is appended
WithRightCache(p, lat) ==
    IF p.is_extend /\ p.has_right_cache
    THEN CatFrames(lat, p.to_right_pad_gt_latents)
    ELSE lat

\* line 1059: is_extend and to_left_pad_gt_latents is not None
HasLeftCache(p) == p.is_extend /\ p.has_left_cache

\* lines 1060-1062: torch.cat([to_right_pad_gt_latents, target_latents], dim=0)
\* raises when to_right_pad_gt_latents is None or the frame counts differ
LeftCacheError(p, lat) ==
    IF ~p.has_right_cache THEN "TypeError"
    ELSE IF FrameCount(p.to_right_pad_gt_latents) # FrameCount(lat) THEN "RuntimeError"
    ELSE ""

\* lines 1060-1062 when the concatenation succeeds
WithLeftCache(p, lat) == CatRows(p.to_right_pad_gt_latents, lat)

ReturnLatents ==
    /\ pc = "loop"
    /\ i = num_inference_steps
    /\ LET lat == WithRightCache(prep, target_latents)
       IN  /\ ~HasLeftCache(prep) \/ LeftCacheError(prep, lat) = ""
           /\ target_latents' = IF HasLeftCache(prep) THEN WithLeftCache(prep, lat) ELSE lat
    /\ pc' = "done"
    /\ UNCHANGED << req, run, prep, i, step_index, momentum_buffer, iters, err >>
    /\ UNCHANGED << editVars, seedVars, callVars >>
    /\ UNCHANGED nodeVars

ReassemblyFails ==
    /\ pc = "loop"
    /\ i = num_inference_steps
    /\ HasLeftCache(prep)
    /\ LET lat == WithRightCache(prep, target_latents)
       IN  /\ LeftCacheError(prep, lat) # ""
           /\ target_latents' = lat
           /\ err' = LeftCacheError(prep, lat)
    /\ pc' = "error"
    /\ UNCHANGED << req, run, prep, i, step_index, momentum_buffer, iters >>
    /\ UNCHANGED << editVars, seedVars, callVars >>
    /\ UNCHANGED nodeVars

T2MNext ==
    \/ Call
    \/ Prepare
    \/ PrepareNoSource
    \/ IterSkipInitTimestep
    \/ IterSkipBeforeNMin
    \/ IterDecayError
    \/ IterRepaint
    \/ IterStep
    \/ ReturnLatents
    \/ ReassemblyFails

SpecT2M == T2MInit /\ [][T2MNext]_vars

(***************************************************************************)
(* Two calls of the same pipeline object, one after the other (the nodes   *)
(* keep the object in the global `ap` between calls).                      *)
(***************************************************************************)
\* requests with manual_seeds and retake_seeds None
UnseededRequests ==
    {Request(ts, sc, gd, NoSeed, NoSeed, pid) :
        ts \in TaskLite, sc \in {s \in Schedules : s.oss_steps = << >>},
        gd \in {g \in GuidanceLite : g.guidance_scale = 10}, pid \in {0}}

TwiceRequests ==
    {c \in T2MRequests :
        /\ c.pid = 0 /\ c.retake_seed = MaxSeed
        /\ c.cfg_type = "apg" /\ c.guidance_scale = 150
        /\ c.guidance_interval = 2 /\ c.guidance_scale_text = 0}
    \cup {c \in T2MRequests : c.src_len >= max_infer_fame_length - NearCap}
    \cup UnseededRequests

\* what the caller has of a finished call
Finished ==
    [req |-> req, prep |-> prep, iters |-> iters, target_latents |-> target_latents,
     pc |-> pc, err |-> err]

\* a retake of the clip length of request c, with its seeds and settings
RetakeOf(c) == [c EXCEPT !.task = "retake", !.src_len = 0]

\* the second call: the same arguments, or the retake of a repainted clip
NextRequests(c) == {c} \cup (IF c.task = "repaint" THEN {RetakeOf(c)} ELSE {})

TwiceInit ==
    /\ pc = "call"
    /\ req \in TwiceRequests
    /\ T2MIdle
    /\ i = 0
    /\ target_latents = << >>
    /\ step_index = 0
    /\ momentum_buffer = 0
    /\ iters = << >>
    /\ err = ""
    /\ EditIdle
    /\ SeedsIdle
    /\ CallIdle
    /\ NodeIdle

\* the caller keeps the result and calls the pipeline object again; the
\* locals of the finished call are gone
CallAgain ==
    /\ pc \in {"done", "error"}
    /\ first = << >>
    /\ first' = Finished
    /\ req' \in NextRequests(req)
    /\ pc' = "call"
    /\ run' = << >>
    /\ prep' = << >>
    /\ i' = 0
    /\ target_latents' = << >>
    /\ iters' = << >>
    /\ err' = ""
    /\ UNCHANGED << step_index, momentum_buffer, generators, hooks >>
    /\ UNCHANGED << editVars, seedVars >>
    /\ UNCHANGED nodeVars

TwiceNext ==
    \/ T2MNext
    \/ CallAgain

SpecTwice == TwiceInit /\ [][TwiceNext]_vars

(***************************************************************************)
(* Claims about text2music_diffusion_process, checked under SpecT2M.       *)
(***************************************************************************)
Prepared == pc \in {"loop", "done", "error"}

\* the request's extension in frames: L before frame 0, R past the last frame
LeftFrames == -ToFrame(req.repaint_start)

RightFrames == ToFrame(req.repaint_end) - req.src_len

ExtendRequest ==
    req.task = "extend" /\ req.src_len > 0 /\ LeftFrames >= 0 /\ RightFrames >= 0

\* a repaint span strictly inside the clip
SpanInside ==
    /\ req.task = "repaint"
    /\ req.src_len > 0
    /\ 0 <= ToFrame(req.repaint_start)
    /\ ToFrame(req.repaint_start) < ToFrame(req.repaint_end)
    /\ ToFrame(req.repaint_end) <= req.src_len
    /\ ToFrame(req.repaint_end) - ToFrame(req.repaint_start) < req.src_len

OutsideSpan(f) == f <= ToFrame(req.repaint_start) \/ f > ToFrame(req.repaint_end)

\* C1: every repaint run whose span lies strictly inside the clip returns a
\* latent equal to the source latent at every frame outside the span.
C1_RepaintKeepsOutside ==
    (pc = "done" /\ SpanInside) =>
        \A b \in 1..Len(target_latents) : \A f \in 1..req.src_len :
            OutsideSpan(f) => target_latents[b][f] = run.src_latents[1][f]

\* C2: an extend by L and R frames under the maximum frame count works on
\* source_length + L + R frames, with left pad L, right pad R, the mask 1
\* exactly on the first L and last R frames, and the source frames in between.
C2_ExtendGeometry ==
    (Prepared /\ ExtendRequest /\ LeftFrames + RightFrames > 0
        /\ req.src_len + LeftFrames + RightFrames < max_infer_fame_length) =>
        /\ prep.frame_length = req.src_len + LeftFrames + RightFrames
        /\ prep.left_pad_frame_length = LeftFrames
        /\ prep.right_pad_frame_length = RightFrames
        /\ prep.repaint_mask =
             [f \in 1..(req.src_len + LeftFrames + RightFrames) |->
                 IF f <= LeftFrames \/ f > LeftFrames + req.src_len THEN 1 ELSE 0]
        /\ prep.x0 = << Zeros(LeftFrames) \o run.src_latents[1] \o Zeros(RightFrames) >>

\* C3: in every extend request the assembled target latent has the frame
\* count of the padded and capped source: the assertion never fails.
C3_ExtendAssertionHolds ==
    (Prepared /\ ExtendRequest /\ LeftFrames + RightFrames > 0) =>
        /\ err # "AssertionError"
        /\ FrameCount(prep.target_latents) = FrameCount(prep.x0)
        /\ FrameCount(prep.target_latents) = Len(prep.repaint_mask)

\* C4: when a trimmed tail or head was cached, the reassembly completes and
\* returns the input batch size and the full requested frame count.
C4_ReassemblyCompletes ==
    (pc \in {"done", "error"} /\ i = num_inference_steps /\ prep.is_extend
        /\ (prep.has_right_cache \/ prep.has_left_cache)) =>
        /\ pc = "done"
        /\ Len(target_latents) = batch_size
        /\ FrameCount(target_latents) = req.src_len + LeftFrames + RightFrames

C6_SkipState ==
    (req.audio2audio_enable /\ req.ref_len > 0) =>
        /\ \A k \in 1..Len(iters) :
              /\ iters[k].kind # "exec" <=> iters[k].t > NoiseQuery(req.ref_audio_strength)
              /\ iters[k].kind # "exec" => iters[k].decode = 0 /\ iters[k].advance = "none"
              /\ iters[k].kind = "exec" => iters[k].decode >= 1 /\ iters[k].advance = "step"
        /\ \A j \in 1..Len(iters) : \A k \in j..Len(iters) :
              iters[j].kind = "exec" => iters[k].kind = "exec"

C6_SkipAction ==
    (req.audio2audio_enable /\ req.ref_len > 0 /\ InLoop
        /\ CurT > NoiseQuery(req.ref_audio_strength)) =>
        /\ target_latents' = target_latents
        /\ step_index' = step_index
        /\ i' = i + 1

C6_SkippedIffAboveInitTimestep == [](C6_SkipState) /\ [][C6_SkipAction]_vars

C6_Witness ==
    /\ pc = "done"
    /\ req.audio2audio_enable /\ req.ref_len > 0
    /\ Len(iters) = MaxSteps
    /\ iters[1].kind = "skip_init"
    /\ iters[Len(iters)].kind = "exec"

\* both double-condition scales exceed 1.0
DoubleScalesActive == req.guidance_scale_text > 10 /\ req.guidance_scale_lyric > 10

\* C12: an executed step fuses with cfg_double_condition_forward only if both
\* guidance_scale_text and guidance_scale_lyric exceed 1.0, and when both do,
\* every step whose index lies in the guidance interval computes the text-only
\* prediction (a third decode call) and fuses with it, whatever cfg_type and
\* guidance_scale are.
C12_DoubleConditionGuidance ==
    Prepared =>
        /\ \A k \in 1..Len(iters) :
              iters[k].kind = "exec" =>
                  /\ iters[k].fusion = "double" => DoubleScalesActive
                  /\ (DoubleScalesActive
                        /\ InGuidanceInterval(iters[k].i, Len(run.timesteps),
                                              req.guidance_interval)) =>
                         iters[k].fusion = "double" /\ iters[k].decode = 3
        /\ DoubleScalesActive => err # "ZeroDivisionError"

\* C15: a repaint or extend call without a source clip fails at once: it
\* raises before any predictor call and returns no latent.
C15_NoSourceFailsAtOnce ==
    (req.task \in {"repaint", "extend"} /\ req.src_len = 0 /\ Prepared) =>
        /\ pc = "error"
        /\ iters = << >>

\* C17: an extend request with no padding on either side, at retake_variance
\* 1.0 as the extend node passes it, takes the repaint path and returns the
\* frames of the source latent unchanged.
C17_ZeroPadExtendKeepsSource ==
    (ExtendRequest /\ LeftFrames = 0 /\ RightFrames = 0 /\ req.retake_variance = 4
         /\ Prepared) =>
        /\ prep.is_repaint
        /\ pc # "error"
        /\ pc = "done" =>
               \A b \in 1..Len(target_latents) : target_latents[b] = run.src_latents[1]

\* the iteration made exactly one scheduler.step call, at the schedule entry
\* of its loop index and with the request's omega_scale, and nothing else
SteppedOnce(it) ==
    /\ it.advance = "step"
    /\ it.step = << [step_index |-> it.i + 1, omega |-> req.omega_scale] >>

\* the iteration made one manual Euler update with the mask splice and no
\* scheduler.step call
EulerOnce(it) == it.advance = "euler" /\ it.step = << >>

\* C13 as stated: in text2music, retake and audio2audio runs every loop
\* iteration of the schedule calls scheduler.step exactly once, in schedule
\* order, with the configured omega; in repaint and extend runs every executed
\* iteration makes one manual Euler update with the mask splice and never
\* calls scheduler.step.
C13_StepOncePerIteration ==
    Prepared =>
        \A k \in 1..Len(iters) :
            /\ run.task \in {"text2music", "retake", "audio2audio"} => SteppedOnce(iters[k])
            /\ (run.task \in {"repaint", "extend"} /\ iters[k].kind = "exec") =>
                   EulerOnce(iters[k])

\* C13 as amended: in a run that builds no repaint mask every executed
\* iteration calls scheduler.step exactly once, in schedule order, with the
\* configured omega, and a skipped iteration calls nothing; in a run with a
\* repaint mask every executed iteration makes one manual Euler update with
\* the mask splice and never calls scheduler.step.
C13_StepOncePerExecutedIteration ==
    Prepared =>
        \A k \in 1..Len(iters) :
            /\ iters[k].kind # "exec" =>
                   iters[k].advance = "none" /\ iters[k].step = << >> /\ iters[k].decode = 0
            /\ (iters[k].kind = "exec" /\ ~prep.is_repaint) => SteppedOnce(iters[k])
            /\ (iters[k].kind = "exec" /\ prep.is_repaint) => EulerOnce(iters[k])

C13_Witness ==
    /\ pc = "done"
    /\ run.task = "audio2audio"
    /\ req.omega_scale # OmegaDefault
    /\ Len(iters) = MaxSteps
    /\ iters[1].step = << >>
    /\ iters[MaxSteps].step = << [step_index |-> MaxSteps, omega |-> req.omega_scale] >>

\* the prediction iteration record it used is the predictor's output on the
\* record's input under the conditioning cond
UsedPrediction(it, cond) ==
    it.pred = [b \in 1..Len(it.input) |-> Predict(req.pid, cond, it.t, it.input[b])]

\* C20 as stated: at guidance_scale 1.0 and at 0.0 the prediction used to
\* advance the latent equals the unconditional prediction.
C20_UnguidedUsesUnconditional ==
    (Prepared /\ req.guidance_scale \in {0, 10}) =>
        \A k \in 1..Len(iters) :
            iters[k].kind = "exec" => UsedPrediction(iters[k], CondNull)

\* C20 as amended: at guidance_scale 1.0 and at 0.0 no fusion is applied and
\* the prediction used to advance the latent is the single prediction under
\* the full text and lyric conditioning.
C20_UnguidedUsesConditioned ==
    (Prepared /\ req.guidance_scale \in {0, 10}) =>
        \A k \in 1..Len(iters) :
            iters[k].kind = "exec" =>
                /\ iters[k].fusion = "none"
                /\ UsedPrediction(iters[k], CondFull)

C20_Witness ==
    /\ pc = "done"
    /\ req.guidance_scale = 0
    /\ req.guidance_interval = 4
    /\ Len(iters) = MaxSteps
    /\ \A k \in 1..Len(iters) :
           /\ iters[k].kind = "exec"
           /\ UsedPrediction(iters[k], CondFull)
           /\ ~UsedPrediction(iters[k], CondNull)

\* the iterations that re-initialised the working latent (lines 909-912)
Reinits == {k \in 1..Len(iters) : iters[k].reinit}

\* C22: a finished run with a repaint mask (repaint or extend) reached the
\* repaint start index n_min: the iterations before it called no predictor
\* and left the latent alone, and the working latent was re-initialised
\* exactly once, in iteration n_min, which is the first to call the
\* predictor and to update the latent.
C22_RepaintStartReached ==
    (pc = "done" /\ prep.is_repaint) =>
        /\ Cardinality(Reinits) = 1
        /\ \A k \in 1..Len(iters) :
              /\ iters[k].reinit <=> iters[k].i = n_min
              /\ iters[k].i < n_min =>
                     iters[k].decode = 0 /\ iters[k].advance = "none"
              /\ iters[k].i >= n_min =>
                     iters[k].decode >= 1 /\ iters[k].advance = "euler"

\* C23: when the padding of an extend request takes the frame count over the
\* maximum, the working source latent has exactly the maximum frame count and
\* the cached slice holds the frames that were cut: the kept part followed by
\* the cached tail (padding on the left), or the cached head followed by the
\* kept part (padding on the right), is the zero-padded source latent.
C23_CachedSliceIsRemovedFrames ==
    (Prepared /\ ExtendRequest /\ err # "AssertionError") =>
        /\ (prep.has_right_cache \/ prep.has_left_cache) =>
               FrameCount(prep.x0) = max_infer_fame_length
        /\ (prep.has_right_cache /\ RightFrames = 0) =>
               prep.x0[1] \o prep.to_right_pad_gt_latents[1]
                   = Zeros(LeftFrames) \o run.src_latents[1]
        /\ (prep.has_left_cache /\ LeftFrames = 0) =>
               prep.to_left_pad_gt_latents[1] \o prep.x0[1]
                   = run.src_latents[1] \o Zeros(RightFrames)

\* start_idx <= i < end_idx for the loop index of an iteration record
InWindow(it) ==
    /\ start_idx(num_inference_steps, req.guidance_interval) <= it.i
    /\ it.i < end_idx(num_inference_steps, req.guidance_interval)

\* C24: the guidance interval is symmetric about the middle of the schedule,
\* start_idx = N - end_idx, and an iteration fuses predictions exactly when
\* its index lies in the interval and classifier-free guidance is enabled.
C24_GuidanceWindowSymmetric ==
    Prepared =>
        /\ start_idx(num_inference_steps, req.guidance_interval)
               = num_inference_steps - end_idx(num_inference_steps, req.guidance_interval)
        /\ \A k \in 1..Len(iters) :
               iters[k].kind = "exec" =>
                   (iters[k].fusion # "none"
                        <=> (InWindow(iters[k]) /\ req.guidance_scale \notin {0, 10}))

\* the loop stands at a guided iteration that is not skipped
AtGuidedIteration ==
    /\ InLoop
    /\ ~SkipsInitTimestep(CurT, init_timestep)
    /\ ~SkipsBeforeNMin
    /\ IsGuided

\* the decayed scale of the current iteration: guidance_scale at the window's
\* first step, guidance_scale - (guidance_scale - min_guidance_scale) * d at
\* its last, between the two ends when min_guidance_scale <= guidance_scale,
\* and guidance_scale everywhere when d = 0 (d in quarters, scales in tenths)
DecayedScaleAsStated ==
    LET g == CurrentGuidanceScale
        lo == start_idx(num_inference_steps, req.guidance_interval)
        hi == end_idx(num_inference_steps, req.guidance_interval) - 1
        d == req.guidance_interval_decay
    IN  /\ i = lo => g.num = req.guidance_scale * g.den
        /\ i = hi =>
               4 * g.num = (4 * req.guidance_scale
                            - (req.guidance_scale - min_guidance_scale) * d) * g.den
        /\ min_guidance_scale <= req.guidance_scale =>
               /\ min_guidance_scale * g.den <= g.num
               /\ g.num <= req.guidance_scale * g.den
        /\ d = 0 => g.num = req.guidance_scale * g.den

\* C25: in every guided iteration, for every window of one step or more, the
\* current guidance scale is well defined (its progress has a divisor other
\* than zero) and follows the linear decay from guidance_scale down to
\* guidance_scale - (guidance_scale - min_guidance_scale) * d.
C25_DecayedScaleWellDefined ==
    AtGuidedIteration => (~DecayDividesByZero /\ DecayedScaleAsStated)

\* the iteration records of the iterations that ran, in order
Executed == SelectSeq(iters, LAMBDA it : it.kind = "exec")

\* C26: with cfg_type = cfg_star, guidance enabled and use_zero_init set, the
\* first zero_steps executed iterations of a text2music run advance the latent
\* with a zero prediction, whatever the guidance interval and step count.
C26_ZeroInitFirstSteps ==
    (Prepared /\ run.task = "text2music" /\ req.cfg_type = "cfg_star"
        /\ do_classifier_free_guidance(req.guidance_scale) /\ use_zero_init) =>
        \A k \in 1..Len(Executed) :
            k <= zero_steps =>
                Executed[k].pred = [b \in 1..Len(Executed[k].input) |->
                                       Zeros(Len(Executed[k].input[b]))]

\* C27: an audio2audio run with a reference latent executes at least one
\* iteration, and the first one it executes is the schedule index whose sigma
\* add_latents_noise blended the reference latent with.
C27_FirstStepMatchesNoiseLevel ==
    (pc = "done" /\ HasRef(req)) =>
        /\ Len(Executed) >= 1
        /\ Executed[1].i = NearestIdx(run.timesteps, init_timestep) - 1

(***************************************************************************)
(* calc_v and flowedit_diffusion_process.                                  *)
(***************************************************************************)
\* arguments of the edit task: n_min and n_max in quarters, guidance_scale in
\* tenths, the source clip of src_len frames.
EditRequests ==
    {[infer_steps |-> n, n_min |-> a, n_max |-> b, n_avg |-> k, guidance_scale |-> g,
      src_len |-> m, seed |-> sd, pid |-> p] :
        n \in 1..MaxSteps, a \in Quarters, b \in Quarters, k \in 1..MaxAvg,
        g \in GuidanceScales, m \in 1..MaxSrc, sd \in 0..MaxSeed, p \in 0..MaxPred}

\* one guided prediction of calc_v for one row: the fusion applied, and the
\* buffer handed to apg_forward ("none" when the argument is None)
GuidedRow(pid, cond, t, row, do_cfg, scale, cfg_type) ==
    IF ~do_cfg THEN Predict(pid, cond, t, row)
    ELSE IF cfg_type = "apg"
         THEN apg_forward(Predict(pid, cond, t, row), Predict(pid, CondNull, t, row), scale, 1)
         ELSE cfg_forward(Predict(pid, cond, t, row), Predict(pid, CondNull, t, row), scale, 1)

FusionOf(do_cfg, cfg_type) == IF do_cfg THEN cfg_type ELSE "none"

\* calc_v: momentum_buffer and momentum_buffer_tar name the buffer object
\* passed ("source", "target") or "none" for None.
calc_v(zt_src, zt_tar, t, pid, do_cfg, guidance_scale, target_guidance_scale, cfg_type, buffer, buffer_tar, return_src_pred) ==
    [ noise_pred_src |->
          IF return_src_pred
          THEN [b \in 1..Len(zt_src) |->
                   GuidedRow(pid, CondFull, t, zt_src[b], do_cfg, guidance_scale, cfg_type)]
          ELSE << >>,
      noise_pred_tar |->
          [b \in 1..Len(zt_tar) |->
              GuidedRow(pid, CondTarget, t, zt_tar[b], do_cfg, target_guidance_scale, cfg_type)],
      src_calls  |-> IF return_src_pred THEN 1 ELSE 0,
      tar_calls  |-> 1,
      src_fusion |-> IF return_src_pred THEN FusionOf(do_cfg, cfg_type) ELSE "none",
      src_buffer |-> IF return_src_pred /\ do_cfg /\ cfg_type = "apg" THEN buffer ELSE "none",
      tar_fusion |-> FusionOf(do_cfg, cfg_type),
      tar_buffer |-> IF do_cfg /\ cfg_type = "apg" THEN buffer_tar ELSE "none" ]

\* the updates one calc_v call makes to the buffer object `which`
BufferUpdates(cv, which) ==
    (IF cv.src_fusion = "apg" /\ cv.src_buffer = which THEN 1 ELSE 0)
        + (IF cv.tar_fusion = "apg" /\ cv.tar_buffer = which THEN 1 ELSE 0)

\* n_min = int(infer_steps * n_min); n_max = int(infer_steps * n_max)
FlowEditNMin(infer_steps, frac) == PyInt(infer_steps * frac, 4)

FlowEditNMax(infer_steps, frac) == PyInt(infer_steps * frac, 4)

EditNMin == FlowEditNMin(req.infer_steps, req.n_min)

EditNMax == FlowEditNMax(req.infer_steps, req.n_max)

EditTimesteps == BaseTimesteps(req.infer_steps)

EditT == EditTimesteps[i + 1]

\* a variant that takes the last timestep itself after the last step
EditNextTLast == IF i + 1 < Len(EditTimesteps) THEN EditTimesteps[i + 2] ELSE EditT

\* t_im1: the next timestep, zero after the last step (lines 420-423)
EditNextT == IF i + 1 < Len(EditTimesteps) THEN EditTimesteps[i + 2] ELSE 0

x_src == ClipLatents(req.src_len, 10)

\* randn_tensor(x_src.shape, random_generators): the next draw but k
fwd_noise(k) == [b \in 1..Len(x_src) |-> NoiseRow(req.seed, draws + k, req.src_len)]

\* a + b - c, frame by frame
Shifted(a, b, c) ==
    [r \in 1..Len(a) |-> [f \in 1..Len(a[r]) |-> a[r][f] + b[r][f] - c[r][f]]]

\* lines 431-461: the k-th of the n_avg velocity samples of a dual iteration
DualSample(k) ==
    calc_v(Interpolate(x_src, fwd_noise(k - 1), EditT),
           Shifted(zt_edit, Interpolate(x_src, fwd_noise(k - 1), EditT), x_src),
           EditT, req.pid, do_classifier_free_guidance(req.guidance_scale),
           req.guidance_scale, req.guidance_scale, "apg", "source", "none", TRUE)

RECURSIVE SumDelta(_, _, _)
SumDelta(k, r, f) ==
    IF k = 0 THEN 0
    ELSE DualSample(k).noise_pred_tar[r][f] - DualSample(k).noise_pred_src[r][f]
             + SumDelta(k - 1, r, f)

\* V_delta_avg += (1 / n_avg) * (Vt_tar - Vt_src), n_avg times
V_delta_avg ==
    [r \in 1..Len(x_src) |->
        [f \in 1..Len(x_src[r]) |-> SumDelta(req.n_avg, r, f) \div req.n_avg]]

\* lines 472-481: xt_src = sigma * fwd_noise + (1 - sigma) * x_src with the
\* sigma of the current step; xt_tar = zt_edit + xt_src - x_src
FrozenTarget == Shifted(zt_edit, Interpolate(x_src, fwd_noise(0), EditT), x_src)

\* lines 483-503: the velocity call of a tail iteration on the target `xt`
TailSample(xt) ==
    calc_v(<< >>, xt, EditT, req.pid, do_classifier_free_guidance(req.guidance_scale),
           req.guidance_scale, req.guidance_scale, "apg", "none", "target", FALSE)

EditRecord(k, kind, freeze, cv, calls, euler) ==
    [i |-> k, kind |-> kind, freeze |-> freeze,
     src_calls |-> cv.src_calls * calls, tar_calls |-> cv.tar_calls * calls,
     src_fusion |-> cv.src_fusion, src_buffer |-> cv.src_buffer,
     tar_fusion |-> cv.tar_fusion, tar_buffer |-> cv.tar_buffer,
     euler |-> euler]

NoCall ==
    [src_calls |-> 0, tar_calls |-> 0, src_fusion |-> "none", src_buffer |-> "none",
     tar_fusion |-> "none", tar_buffer |-> "none"]

InEditLoop == pc = "edit" /\ i < Len(EditTimesteps)

EditInit ==
    /\ pc = "edit_call"
    /\ req \in EditRequests
    /\ i = 0
    /\ target_latents = << >>
    /\ step_index = 0
    /\ momentum_buffer = 0
    /\ iters = << >>
    /\ err = ""
    /\ T2MIdle
    /\ EditIdle
    /\ SeedsIdle
    /\ CallIdle
    /\ NodeIdle

\* lines 341-413
EditCall ==
    /\ pc = "edit_call"
    /\ pc' = "edit"
    /\ zt_edit' = x_src
    /\ xt_tar' = << >>
    /\ momentum_buffer' = 0
    /\ momentum_buffer_tar' = 0
    /\ UNCHANGED << req, i, target_latents, step_index, iters, err, draws >>
    /\ UNCHANGED << t2mVars, seedVars, callVars >>
    /\ UNCHANGED nodeVars

\* if i < n_min: continue
EditSkip ==
    /\ InEditLoop
    /\ i < EditNMin
    /\ i' = i + 1
    /\ iters' = Append(iters, EditRecord(i, "skip", 0, NoCall, 0, 0))
    /\ UNCHANGED << pc, req, target_latents, step_index, momentum_buffer, err, editVars >>
    /\ UNCHANGED << t2mVars, seedVars, callVars >>
    /\ UNCHANGED nodeVars

\* lines 427-469
EditDual ==
    /\ InEditLoop
    /\ i >= EditNMin
    /\ i < EditNMax
    /\ zt_edit' = [r \in 1..Len(zt_edit) |->
                      EulerRow(zt_edit[r], V_delta_avg[r], EditT, EditNextT)]
    /\ draws' = draws + req.n_avg
    /\ momentum_buffer' = momentum_buffer + req.n_avg * BufferUpdates(DualSample(1), "source")
    /\ momentum_buffer_tar' =
           momentum_buffer_tar + req.n_avg * BufferUpdates(DualSample(1), "target")
    /\ i' = i + 1
    /\ iters' = Append(iters, EditRecord(i, "dual", 0, DualSample(1), req.n_avg, 1))
    /\ UNCHANGED << pc, req, target_latents, step_index, err, xt_tar >>
    /\ UNCHANGED << t2mVars, seedVars, callVars >>
    /\ UNCHANGED nodeVars

\* lines 470-509, with the freeze of lines 471-481 when i == n_max
EditTail ==
    /\ InEditLoop
    /\ i >= EditNMin
    /\ i >= EditNMax
    /\ i = EditNMax \/ xt_tar # << >>
    /\ LET xt == IF i = EditNMax THEN FrozenTarget ELSE xt_tar
           cv == TailSample(xt)
       IN  /\ xt_tar' = [r \in 1..Len(xt) |->
                            EulerRow(xt[r], cv.noise_pred_tar[r], EditT, EditNextT)]
           /\ momentum_buffer' = momentum_buffer + BufferUpdates(cv, "source")
           /\ momentum_buffer_tar' = momentum_buffer_tar + BufferUpdates(cv, "target")
           /\ iters' = Append(iters,
                  EditRecord(i, "tail", IF i = EditNMax THEN 1 ELSE 0, cv, 1, 1))
    /\ draws' = IF i = EditNMax THEN draws + 1 ELSE draws
    /\ step_index' = IF i = EditNMax THEN i + 1 ELSE step_index
    /\ i' = i + 1
    /\ UNCHANGED << pc, req, target_latents, err, zt_edit >>
    /\ UNCHANGED << t2mVars, seedVars, callVars >>
    /\ UNCHANGED nodeVars

\* lines 483-503 with xt_tar still None: calc_v fails on its zt_tar argument
\* (torch.cat of None when guided, None.shape otherwise) before the predictor
EditTailUndefined ==
    /\ InEditLoop
    /\ i >= EditNMin
    /\ i >= EditNMax
    /\ i # EditNMax
    /\ xt_tar = << >>
    /\ pc' = "error"
    /\ err' = IF do_classifier_free_guidance(req.guidance_scale)
              THEN "TypeError" ELSE "AttributeError"
    /\ iters' = Append(iters, EditRecord(i, "tail_undefined", 0, NoCall, 0, 0))
    /\ UNCHANGED << req, i, target_latents, step_index, momentum_buffer, editVars >>
    /\ UNCHANGED << t2mVars, seedVars, callVars >>
    /\ UNCHANGED nodeVars

\* lines 511-512
EditReturn ==
    /\ pc = "edit"
    /\ i = Len(EditTimesteps)
    /\ target_latents' = IF xt_tar = << >> THEN zt_edit ELSE xt_tar
    /\ pc' = "done"
    /\ UNCHANGED << req, i, step_index, momentum_buffer, iters, err, editVars >>
    /\ UNCHANGED << t2mVars, seedVars, callVars >>
    /\ UNCHANGED nodeVars

EditNext ==
    \/ EditCall
    \/ EditSkip
    \/ EditDual
    \/ EditTail
    \/ EditTailUndefined
    \/ EditReturn

SpecEdit == EditInit /\ [][EditNext]_vars

(***************************************************************************)
(* Claims about flowedit_diffusion_process, checked under SpecEdit.        *)
(***************************************************************************)
Freezes == {k \in 1..Len(iters) : iters[k].freeze = 1}

TailKinds == {"tail", "tail_undefined"}

\* C7: for all n_min and n_max in [0,1] and all step counts the boundary
\* freeze happens at most once, at loop index n_max, and every tail iteration
\* that reaches the velocity call comes after it, so that the target latent
\* it passes on is never undefined.
C7_FreezeBeforeTail ==
    pc \in {"edit", "done", "error"} =>
        /\ Cardinality(Freezes) <= 1
        /\ \A k \in Freezes : iters[k].i = EditNMax
        /\ \A k \in 1..Len(iters) :
              iters[k].kind \in TailKinds =>
                  /\ iters[k].kind = "tail"
                  /\ \E j \in Freezes : j <= k

\* C8: iterations with i < n_min make no predictor call and leave the target
\* accumulator alone; iterations with n_min <= i < n_max make n_avg source and
\* n_avg target calls and one Euler update; iterations with i >= n_max make
\* exactly one target call and no source call.
C8_CallsPerIteration ==
    pc \in {"edit", "done", "error"} =>
        \A k \in 1..Len(iters) :
            /\ iters[k].i < EditNMin =>
                  iters[k].src_calls = 0 /\ iters[k].tar_calls = 0 /\ iters[k].euler = 0
            /\ (EditNMin <= iters[k].i /\ iters[k].i < EditNMax) =>
                  /\ iters[k].src_calls = req.n_avg
                  /\ iters[k].tar_calls = req.n_avg
                  /\ iters[k].euler = 1
            /\ iters[k].i >= EditNMax =>
                  iters[k].tar_calls = 1 /\ iters[k].src_calls = 0

\* C9: with guidance active, in both phases, source guidance uses and updates
\* the source buffer, target guidance uses and updates the target buffer, and
\* no guidance call runs without its buffer.
C9_BufferPerTrajectory ==
    (pc \in {"edit", "done", "error"} /\ req.guidance_scale \notin {0, 10}) =>
        \A k \in 1..Len(iters) :
            /\ iters[k].src_calls > 0 =>
                  iters[k].src_fusion = "apg" /\ iters[k].src_buffer = "source"
            /\ iters[k].tar_calls > 0 =>
                  iters[k].tar_fusion = "apg" /\ iters[k].tar_buffer = "target"

(***************************************************************************)
(* set_seeds (lines 145-177).                                              *)
(*                                                                         *)
(* A Python string is the sequence of its characters.  A seed is the pair  *)
(* << hi, lo >> of the number hi * 2^16 + lo, so that the range of         *)
(* torch.randint(0, 2**32) fits; a generator is the seed it was given.     *)
(***************************************************************************)
SeedBits == 32

Word == 2 ^ (SeedBits \div 2)

SeedOf(n) == << n \div Word, n % Word >>

Digits == {"0", "1", "2"}

Chars == Digits \cup {",", "-"}

Strings == UNION {[1..n -> Chars] : n \in 0..MaxStr}

IntLists == UNION {[1..n -> 0..(MaxSeed + 1)] : n \in 0..MaxList}

\* the values of manual_seeds: None, an int, a str, a list of int, and a list
\* of str as the nodes pass for retake_seeds
ManualSeeds ==
    {[kind |-> "None", int |-> 0, chars |-> << >>, items |-> << >>]}
        \cup {[kind |-> "int", int |-> n, chars |-> << >>, items |-> << >>] :
                  n \in 0..(MaxSeed + 1)}
        \cup {[kind |-> "str", int |-> 0, chars |-> c, items |-> << >>] : c \in Strings}
        \cup {[kind |-> "list", int |-> 0, chars |-> << >>, items |-> l] : l \in IntLists}
        \cup {[kind |-> "str_list", int |-> 0, chars |-> c, items |-> << >>] :
                  c \in [1..1 -> Digits]}

SeedRequests ==
    {[batch_size |-> b, manual_seeds |-> m] : b \in 0..MaxBatch, m \in ManualSeeds}

\* "," in manual_seeds
HasComma(c) == \E k \in 1..Len(c) : c[k] = ","

\* str.isdigit()
IsDigit(c) == Len(c) > 0 /\ \A k \in 1..Len(c) : c[k] \in Digits

DigitVal(d) == CASE d = "0" -> 0 [] d = "1" -> 1 [] OTHER -> 2

RECURSIVE Decimal(_)
Decimal(c) ==
    IF Len(c) = 0 THEN 0
    ELSE 10 * Decimal(SubSeq(c, 1, Len(c) - 1)) + DigitVal(c[Len(c)])

\* int(piece) succeeds on an optional sign followed by digits
IsIntLiteral(c) ==
    IF Len(c) > 0 /\ c[1] = "-" THEN IsDigit(Tail(c)) ELSE IsDigit(c)

\* int(piece)
ParseInt(c) == IF c[1] = "-" THEN 0 - Decimal(Tail(c)) ELSE Decimal(c)

FirstComma(c) == CHOOSE k \in 1..Len(c) : c[k] = "," /\ \A j \in 1..(k - 1) : c[j] # ","

\* manual_seeds.split(",")
RECURSIVE Split(_)
Split(c) ==
    IF ~HasComma(c) THEN << c >>
    ELSE << SubSeq(c, 1, FirstComma(c) - 1) >> \o Split(SubSeq(c, FirstComma(c) + 1, Len(c)))

Processed(kind, n, items) == [kind |-> kind, int |-> n, items |-> items]

\* list(map(int, manual_seeds.split(","))) raises ValueError
ParseRaises(m) ==
    /\ m.kind = "str"
    /\ HasComma(m.chars)
    /\ \E k \in 1..Len(Split(m.chars)) : ~IsIntLiteral(Split(m.chars)[k])

\* lines 146-157: processed_input_seeds
ProcessedInputSeeds(m) ==
    CASE m.kind = "str" /\ HasComma(m.chars) ->
             Processed("list", 0, [k \in 1..Len(Split(m.chars)) |-> ParseInt(Split(m.chars)[k])])
      [] m.kind = "str" /\ ~HasComma(m.chars) /\ IsDigit(m.chars) ->
             Processed("int", Decimal(m.chars), << >>)
      [] m.kind = "list" /\ Len(m.items) > 0 -> Processed("list", 0, m.items)
      [] m.kind = "int" -> Processed("int", m.int, << >>)
      [] OTHER -> Processed("None", 0, << >>)

\* a variant that starts the list over for the rows past its end
WrappedSeedForGenerator(p, r) ==
    IF p.kind = "int" THEN p.int ELSE p.items[((r - 1) % Len(p.items)) + 1]

\* lines 166-171, for row r (1-based) of a processed int or list
CurrentSeedForGenerator(p, r) ==
    IF p.kind = "int" THEN p.int
    ELSE IF r <= Len(p.items) THEN p.items[r] ELSE p.items[Len(p.items)]

\* torch.randint(0, 2**32, (1,)).item(): any seed of the range
Randint == {<< h, l >> : h \in {0, Word - 1}, l \in {0, 1, Word - 1}}

\* torch.Generator(device): a generator not seeded by the call
Unseeded == << -1, -1 >>

SeedsInit ==
    /\ pc = "seeds_call"
    /\ req \in SeedRequests
    /\ i = 0
    /\ target_latents = << >>
    /\ step_index = 0
    /\ momentum_buffer = 0
    /\ iters = << >>
    /\ err = ""
    /\ T2MIdle
    /\ EditIdle
    /\ SeedsIdle
    /\ CallIdle
    /\ NodeIdle

\* lines 146-161
ParseSeeds ==
    /\ pc = "seeds_call"
    /\ ~ParseRaises(req.manual_seeds)
    /\ pc' = "seeds_rows"
    /\ processed_input_seeds' = ProcessedInputSeeds(req.manual_seeds)
    /\ random_generators' = [r \in 1..req.batch_size |-> Unseeded]
    /\ actual_seeds' = << >>
    /\ UNCHANGED << req, i, target_latents, step_index, momentum_buffer, iters, err >>
    /\ UNCHANGED << t2mVars, editVars, callVars >>
    /\ UNCHANGED nodeVars

\* line 150 raising ValueError
ParseSeedsFails ==
    /\ pc = "seeds_call"
    /\ ParseRaises(req.manual_seeds)
    /\ pc' = "error"
    /\ err' = "ValueError"
    /\ UNCHANGED << req, i, target_latents, step_index, momentum_buffer, iters >>
    /\ UNCHANGED << t2mVars, editVars, seedVars, callVars >>
    /\ UNCHANGED nodeVars

\* lines 162-164, 174-175: a row whose seed is drawn
SeedRowFresh ==
    /\ pc = "seeds_rows"
    /\ i < req.batch_size
    /\ processed_input_seeds.kind = "None"
    /\ \E drawn \in Randint :
          /\ random_generators' = [random_generators EXCEPT ![i + 1] = drawn]
          /\ actual_seeds' = Append(actual_seeds, drawn)
    /\ iters' = Append(iters, [row |-> i, source |-> "fresh"])
    /\ i' = i + 1
    /\ UNCHANGED << pc, req, target_latents, step_index, momentum_buffer, err >>
    /\ UNCHANGED << processed_input_seeds, t2mVars, editVars, callVars >>
    /\ UNCHANGED nodeVars

\* lines 162-175: a row whose seed comes from the input
SeedRowGiven ==
    /\ pc = "seeds_rows"
    /\ i < req.batch_size
    /\ processed_input_seeds.kind # "None"
    /\ LET current_seed_for_generator ==
               SeedOf(CurrentSeedForGenerator(processed_input_seeds, i + 1))
       IN  /\ random_generators' =
                  [random_generators EXCEPT ![i + 1] = current_seed_for_generator]
           /\ actual_seeds' = Append(actual_seeds, current_seed_for_generator)
    /\ iters' = Append(iters, [row |-> i, source |-> "given"])
    /\ i' = i + 1
    /\ UNCHANGED << pc, req, target_latents, step_index, momentum_buffer, err >>
    /\ UNCHANGED << processed_input_seeds, t2mVars, editVars, callVars >>
    /\ UNCHANGED nodeVars

\* line 176
ReturnSeeds ==
    /\ pc = "seeds_rows"
    /\ i = req.batch_size
    /\ pc' = "done"
    /\ UNCHANGED << req, i, target_latents, step_index, momentum_buffer, iters, err >>
    /\ UNCHANGED << t2mVars, editVars, seedVars, callVars >>
    /\ UNCHANGED nodeVars

SeedsNext ==
    \/ ParseSeeds
    \/ ParseSeedsFails
    \/ SeedRowFresh
    \/ SeedRowGiven
    \/ ReturnSeeds

SpecSeeds == SeedsInit /\ [][SeedsNext]_vars

(***************************************************************************)
(* Claims about set_seeds, checked under SpecSeeds.                        *)
(***************************************************************************)
\* the node's retake_seeds = [str(seed)] for the seed written in chars
NodeSeed(m) == Decimal(m.chars)

\* C28: the repaint, edit and extend nodes' seed determines the retake
\* generators: the actual retake seeds set_seeds computes from the value the
\* node passes all equal that seed.
C28_NodeSeedSeedsRetake ==
    (pc = "done" /\ req.manual_seeds.kind = "str_list") =>
        /\ Len(actual_seeds) = req.batch_size
        /\ \A r \in 1..Len(actual_seeds) :
               actual_seeds[r] = SeedOf(NodeSeed(req.manual_seeds))

\* a comma-separated string of integers
IsIntList(c) == HasComma(c) /\ \A k \in 1..Len(Split(c)) : IsIntLiteral(Split(c)[k])

\* the inputs the claim speaks of
SeedInputCovered(m) ==
    \/ m.kind \in {"None", "int"}
    \/ m.kind = "str" /\ (IsDigit(m.chars) \/ IsIntList(m.chars))
    \/ m.kind = "list" /\ Len(m.items) > 0

\* row r of a list of n entries takes entry r, rows past the end the last
EntryOf(r, n) == IF r <= n THEN r ELSE n

SeedsOfRows(m, r) ==
    CASE m.kind = "int" -> actual_seeds[r] = SeedOf(m.int)
      [] m.kind = "str" /\ IsDigit(m.chars) -> actual_seeds[r] = SeedOf(Decimal(m.chars))
      [] m.kind = "str" /\ IsIntList(m.chars) ->
             actual_seeds[r] =
                 SeedOf(ParseInt(Split(m.chars)[EntryOf(r, Len(Split(m.chars)))]))
      [] m.kind = "list" /\ Len(m.items) > 0 ->
             actual_seeds[r] = SeedOf(m.items[EntryOf(r, Len(m.items))])
      [] m.kind = "None" ->
             /\ iters[r].source = "fresh"
             /\ actual_seeds[r][1] \in 0..(Word - 1)
             /\ actual_seeds[r][2] \in 0..(Word - 1)
      [] OTHER -> TRUE

\* C10: set_seeds returns batch_size generators and batch_size actual seeds,
\* generator r seeded with actual_seeds[r]; an int or digit string seeds every
\* row; an int list or comma-separated string seeds row r with entry r and the
\* rows past its end with the last entry; None draws a fresh seed in
\* [0, 2^32) for every row.
C10_SetSeeds ==
    /\ (pc \in {"seeds_call", "seeds_rows", "error"} /\ SeedInputCovered(req.manual_seeds)) =>
           err = ""
    /\ pc = "done" =>
           /\ Len(random_generators) = req.batch_size
           /\ Len(actual_seeds) = req.batch_size
           /\ \A r \in 1..req.batch_size :
                 /\ random_generators[r] = actual_seeds[r]
                 /\ SeedsOfRows(req.manual_seeds, r)

C10_Witness ==
    /\ pc = "done"
    /\ req.batch_size = MaxBatch
    /\ req.manual_seeds.kind = "str"
    /\ req.manual_seeds.chars = << "2", ",", "1" >>
    /\ actual_seeds = << SeedOf(2), SeedOf(1), SeedOf(1) >>

(***************************************************************************)
(* Claims about two calls, checked under SpecTwice.                        *)
(***************************************************************************)
\* both seeds of the request are integers
FixedSeeds(c) == c.seed # NoSeed /\ c.retake_seed # NoSeed

SecondFinished == first # << >> /\ pc \in {"done", "error"}

FirstRepaintedAll ==
    /\ first.req.task = "repaint"
    /\ first.req.src_len > 0
    /\ ToFrame(first.req.repaint_start) = 0
    /\ ToFrame(first.req.repaint_end) = first.req.src_len

\* C16: a repaint whose span is the whole clip builds no mask and makes the
\* same quarter-sine blend, predictor calls and scheduler steps as a retake
\* with the same seeds and settings, and the two calls return equal latents.
C16_FullSpanRepaintIsRetake ==
    (SecondFinished /\ FirstRepaintedAll /\ FixedSeeds(req)
         /\ req = [first.req EXCEPT !.task = "retake", !.src_len = 0]) =>
        /\ ~first.prep.is_repaint
        /\ first.prep.repaint_mask = << >>
        /\ first.prep.target_latents = prep.target_latents
        /\ first.pc = pc
        /\ first.err = err
        /\ first.iters = iters
        /\ first.target_latents = target_latents

C16_Witness ==
    /\ SecondFinished
    /\ FirstRepaintedAll
    /\ req = [first.req EXCEPT !.task = "retake", !.src_len = 0]
    /\ req.retake_variance = 2
    /\ pc = "done"
    /\ Len(iters) = MaxSteps
    /\ \A k \in 1..Len(iters) : iters[k].advance = "step"
    /\ first.iters = iters
    /\ first.target_latents = target_latents
    /\ prep.target_latents # run.target_latents
    /\ target_latents # prep.target_latents

(***************************************************************************)
(* The closed form of flow-edit over the whole schedule without guidance,  *)
(* checked under SpecEdit.                                                 *)
(***************************************************************************)
\* V_target - V_source of one repetition at timestep t: the source side is
\* the source latent noised with the given draw, the target side the
\* accumulator acc moved by the same amount
VelocityDelta(acc, t, draw) ==
    LET zt_src == Interpolate(x_src, << NoiseRow(req.seed, draw, req.src_len) >>, t)[1]
        zt_tar == [f \in 1..req.src_len |-> acc[f] + zt_src[f] - x_src[1][f]]
    IN  [f \in 1..req.src_len |->
            Predict(req.pid, CondTarget, t, zt_tar)[f] - Predict(req.pid, CondFull, t, zt_src)[f]]

RECURSIVE SumOfDeltas(_, _, _, _, _)
\* the sum over the repetitions 1..j of step k (counted from 1), at frame f
SumOfDeltas(acc, k, j, f, t) ==
    IF j = 0 THEN 0
    ELSE VelocityDelta(acc, t, (k - 1) * req.n_avg + j - 1)[f] + SumOfDeltas(acc, k, j - 1, f, t)

\* t after step k, zero after the last step
TimestepAfter(k) == IF k < req.infer_steps THEN BaseTimesteps(req.infer_steps)[k + 1] ELSE 0

RECURSIVE Accumulated(_)
\* x_src + the sum over the steps 1..k of (t_next - t) / 1000 * average delta
Accumulated(k) ==
    IF k = 0 THEN x_src[1]
    ELSE [f \in 1..req.src_len |->
             Accumulated(k - 1)[f]
                 + ((TimestepAfter(k) - BaseTimesteps(req.infer_steps)[k])
                        * (SumOfDeltas(Accumulated(k - 1), k, req.n_avg, f,
                                       BaseTimesteps(req.infer_steps)[k]) \div req.n_avg))
                   \div 100]

WholeScheduleUnguided ==
    /\ pc = "done"
    /\ req.n_min = 0
    /\ req.n_max = 4
    /\ req.guidance_scale \in {0, 10}

\* C19: with n_min = 0, n_max = 1.0 and no guidance flow-edit returns the
\* accumulator x_src + sum over the steps of (t_next - t) / 1000 * the average
\* over the n_avg repetitions of V_target - V_source, t_next being 0 after
\* the last step; on one step with n_avg = 1 that is one Euler update of the
\* source latent; and a predictor that gives source and target the same
\* velocity returns the source latent.
C19_FlowEditClosedForm ==
    WholeScheduleUnguided =>
        /\ \A k \in 1..Len(iters) : iters[k].kind = "dual"
        /\ Len(iters) = req.infer_steps
        /\ target_latents = << Accumulated(req.infer_steps) >>
        /\ (req.infer_steps = 1 /\ req.n_avg = 1) =>
               target_latents[1] =
                   [f \in 1..req.src_len |->
                       x_src[1][f] - 10 * VelocityDelta(x_src[1], 1000, 0)[f]]
        /\ req.pid % 2 = 1 => target_latents = x_src

\* one step, n_avg = 1, seed 0, the first predictor: frame 1 of the source is
\* 11.00, the draw is 0.00, V_target - V_source is 1.0, the result 10.00
C19_Witness ==
    /\ WholeScheduleUnguided
    /\ req.infer_steps = 1
    /\ req.n_avg = 1
    /\ req.seed = 0
    /\ req.pid = 0
    /\ x_src[1][1] = 11 * Unit
    /\ target_latents[1][1] = 10 * Unit

(***************************************************************************)
(* add_latents_noise (lines 514-533) on its own: any strictly decreasing   *)
(* schedule over a grid of timesteps, and the schedules of the scheduler,  *)
(* against any query of a grid twice as fine.  i holds nearest_idx as      *)
(* Python counts it, from 0.                                               *)
(***************************************************************************)
NoiseGrid == {0, 250, 500, 750, 1000}

NoiseQueries == {0, 125, 250, 375, 500, 600, 625, 750, 875, 1000}

NoiseSchedules ==
    {ts \in UNION {[1..n -> NoiseGrid] : n \in 1..Cardinality(NoiseGrid)} :
        \A k \in 1..(Len(ts) - 1) : ts[k] > ts[k + 1]}
    \cup {BaseTimesteps(n) : n \in 1..MaxSteps}

NoiseRequests ==
    {[timesteps |-> ts, query |-> q, seed |-> seed] :
        ts \in NoiseSchedules, q \in NoiseQueries, seed \in {0, MaxSeed}}

NoiseInit ==
    /\ pc = "noise_call"
    /\ req \in NoiseRequests
    /\ i = 0
    /\ target_latents = NoiseLatents(ManualSeed(req.seed), MaxSrc)
    /\ step_index = 0
    /\ momentum_buffer = 0
    /\ iters = << >>
    /\ err = ""
    /\ T2MIdle
    /\ EditIdle
    /\ SeedsIdle
    /\ CallIdle
    /\ NodeIdle

\* target_latents, init_timestep = self.add_latents_noise(ref_latents, ...)
AddLatentsNoise ==
    /\ pc = "noise_call"
    /\ i' = NearestIdx(req.timesteps, req.query) - 1
    /\ target_latents' = add_latents_noise(ClipLatents(MaxSrc, 20), req.query,
                                           target_latents, req.timesteps)
    /\ pc' = "done"
    /\ UNCHANGED << req, step_index, momentum_buffer, iters, err >>
    /\ UNCHANGED << t2mVars, editVars, seedVars, callVars >>
    /\ UNCHANGED nodeVars

NoiseNext == AddLatentsNoise

SpecNoise == NoiseInit /\ [][NoiseNext]_vars

\* the distance of schedule entry k (counted from 0) to the query
QueryDistance(k) == Abs(req.timesteps[k + 1] - req.query)

\* C18: the nearest-index lookup returns the index whose timestep is closest
\* to the query, the lowest such index on a tie; for the schedule
\* [1000, 750, 500, 250, 0] and the query 600 it returns 2; and the blend is
\* sigma * noise + (1 - sigma) * latent with the sigma of that index.
C18_NearestIndex ==
    pc = "done" =>
        /\ i \in 0..(Len(req.timesteps) - 1)
        /\ \A j \in 0..(Len(req.timesteps) - 1) : QueryDistance(i) <= QueryDistance(j)
        /\ \A j \in 0..(i - 1) : QueryDistance(j) > QueryDistance(i)
        /\ (req.timesteps = << 1000, 750, 500, 250, 0 >> /\ req.query = 600) => i = 2
        /\ \A b \in 1..batch_size : \A f \in 1..MaxSrc :
               target_latents[b][f] =
                   (req.timesteps[i + 1] * NoiseVal(req.seed, 0, f) * Unit
                      + (1000 - req.timesteps[i + 1]) * (20 + f) * Unit) \div 1000

C18_Witness ==
    /\ pc = "done"
    /\ req.timesteps = << 1000, 750, 500, 250, 0 >>
    /\ req.query = 600
    /\ i = 2
    /\ req.seed = MaxSeed
    /\ target_latents[1][1] = (500 * NoiseVal(MaxSeed, 0, 1) * Unit + 500 * 21 * Unit) \div 1000

(***************************************************************************)
(* The temperature hooks of the entropy-reduced forward passes:            *)
(* get_text_embeddings_null.forward_with_temperature (lines 118-140),      *)
(* forward_encoder_with_temperature (lines 793-813) and                    *)
(* forward_diffusion_with_temperature (lines 874-900), over the forward    *)
(* calls of __call__ on one pipeline object (ace_step_nodes.py keeps the   *)
(* object in the global ap).  hooks counts the hooks attached to each      *)
(* model; iters logs the forward calls of the run.                         *)
(***************************************************************************)
\* range(8, 10) on the text encoder's blocks
TextHooks == 2

\* range(4, 6) on the lyric encoder's layers
LyricHooks == 2

\* attn.to_q and cross_attn.to_q of range(15, 20) of the transformer blocks
DiffusionHooks == 10

NoHooks == [text_encoder |-> 0, lyric_encoder |-> 0, transformer_blocks |-> 0]

\* the arguments of __call__ that decide which forward calls are made
HookRequests ==
    {[use_erg_tag |-> tag, use_erg_lyric |-> lyric, use_erg_diffusion |-> diffusion,
      guidance_scale |-> gs, guidance_scale_text |-> gd[1], guidance_scale_lyric |-> gd[2],
      guidance_interval |-> gi, infer_steps |-> n] :
        tag \in BOOLEAN, lyric \in BOOLEAN, diffusion \in BOOLEAN,
        gs \in {10, 150}, gd \in {<< 0, 0 >>, << 20, 30 >>},
        gi \in {2, 4}, n \in 1..(MaxSteps - 1)}

\* one forward call: the model it runs and the hooks its wrapper attaches
Forward(model, attached) == [model |-> model, attached |-> attached]

\* lines 1146 and 1149-1151 of __call__
TextForwards(c) ==
    << Forward("text_encoder", 0) >>
    \o (IF c.use_erg_tag THEN << Forward("text_encoder", TextHooks) >> ELSE << >>)

\* forward_encoder_with_temperature if use_erg_lyric, else transformer.encode
NullEncode(c) == Forward("lyric_encoder", IF c.use_erg_lyric THEN LyricHooks ELSE 0)

\* lines 816-871: the conditioned, the null and the text-only encoder pass
EncodeForwards(c) ==
    << Forward("lyric_encoder", 0), NullEncode(c) >>
    \o (IF do_double_condition_guidance(c.guidance_scale_text, c.guidance_scale_lyric)
        THEN << NullEncode(c) >> ELSE << >>)

\* lines 919-1028: the decoder passes of iteration k (0-based)
DecodeForwards(c, k) ==
    IF do_classifier_free_guidance(c.guidance_scale)
           /\ InGuidanceInterval(k, c.infer_steps, c.guidance_interval)
    THEN << Forward("transformer_blocks", 0) >>
         \o (IF do_double_condition_guidance(c.guidance_scale_text, c.guidance_scale_lyric)
             THEN << Forward("transformer_blocks", 0) >> ELSE << >>)
         \o << Forward("transformer_blocks",
                       IF c.use_erg_diffusion THEN DiffusionHooks ELSE 0) >>
    ELSE << Forward("transformer_blocks", 0) >>

RECURSIVE LoopForwards(_, _)
\* for i, t in enumerate(timesteps), from iteration k on
LoopForwards(c, k) ==
    IF k >= c.infer_steps THEN << >> ELSE DecodeForwards(c, k) \o LoopForwards(c, k + 1)

\* the forward calls of one __call__, in order
Forwards(c) == TextForwards(c) \o EncodeForwards(c) \o LoopForwards(c, 0)

\* what a forward call leaves in the log: the hooks on its model while it ran
ForwardRecord(f, raised) ==
    [model |-> f.model, attached |-> f.attached,
     seen |-> hooks[f.model] + f.attached, raised |-> raised]

HooksInit ==
    /\ pc = "forward"
    /\ req \in HookRequests
    /\ i = 1
    /\ target_latents = << >>
    /\ step_index = 0
    /\ momentum_buffer = 0
    /\ iters = << >>
    /\ err = ""
    /\ T2MIdle
    /\ EditIdle
    /\ SeedsIdle
    /\ generators = << >>
    /\ first = << >>
    /\ hooks = NoHooks
    /\ NodeIdle

\* the hooks left when the forward call of a wrapper raises: hook.remove()
\* (lines 137-138, 810-811, 897-898) is not reached
RaiseLeaves(f) == [hooks EXCEPT ![f.model] = @ + f.attached]

\* a forward call without a wrapper returns
PlainForwardReturns ==
    /\ pc = "forward"
    /\ Forwards(req)[i].attached = 0
    /\ iters' = Append(iters, ForwardRecord(Forwards(req)[i], FALSE))
    /\ i' = i + 1
    /\ pc' = IF i = Len(Forwards(req)) THEN "done" ELSE "forward"
    /\ UNCHANGED << req, target_latents, step_index, momentum_buffer, err,
                    t2mVars, editVars, seedVars, callVars >>
    /\ UNCHANGED nodeVars

\* a wrapper attaches its hooks, the forward returns, the hooks are removed
HookedForwardReturns ==
    /\ pc = "forward"
    /\ Forwards(req)[i].attached > 0
    /\ iters' = Append(iters, ForwardRecord(Forwards(req)[i], FALSE))
    /\ i' = i + 1
    /\ pc' = IF i = Len(Forwards(req)) THEN "done" ELSE "forward"
    /\ UNCHANGED << req, target_latents, step_index, momentum_buffer, err,
                    t2mVars, editVars, seedVars, callVars >>
    /\ UNCHANGED nodeVars

\* the model's forward raises (out of memory, an interrupted run): the error
\* leaves __call__, nothing in the pipeline catches it
ForwardRaises ==
    /\ pc = "forward"
    /\ iters' = Append(iters, ForwardRecord(Forwards(req)[i], TRUE))
    /\ hooks' = RaiseLeaves(Forwards(req)[i])
    /\ err' = "RuntimeError"
    /\ pc' = "error"
    /\ UNCHANGED << req, i, target_latents, step_index, momentum_buffer,
                    t2mVars, editVars, seedVars, generators, first >>
    /\ UNCHANGED nodeVars

\* the node calls the same pipeline object again
CallPipelineAgain ==
    /\ pc \in {"done", "error"}
    /\ first = << >>
    /\ first' = [pc |-> pc, err |-> err]
    /\ req' \in HookRequests
    /\ pc' = "forward"
    /\ i' = 1
    /\ iters' = << >>
    /\ err' = ""
    /\ UNCHANGED << target_latents, step_index, momentum_buffer,
                    t2mVars, editVars, seedVars, generators, hooks >>
    /\ UNCHANGED nodeVars

HooksNext ==
    \/ PlainForwardReturns
    \/ HookedForwardReturns
    \/ ForwardRaises
    \/ CallPipelineAgain

SpecHooks == HooksInit /\ [][HooksNext]_vars

\* C14: the temperature hooks of an entropy-reduced forward pass are all
\* detached once that forward call has ended, whether it returned or raised,
\* so every predictor or encoder call of this run and of a later run on the
\* same pipeline object runs with no hooks but the ones its own wrapper
\* attached.
C14_HooksDetachedAfterForward ==
    /\ hooks = NoHooks
    /\ \A k \in 1..Len(iters) : iters[k].seen = iters[k].attached

(***************************************************************************)
(* AudioCacher (ace_step_nodes.py lines 32-124) on one instance: files is  *)
(* the set of names that exist in the cache directory, tracked the list    *)
(* _files_to_cleanup_in_context, ret the call that ended last.             *)
(***************************************************************************)
\* the names tempfile.NamedTemporaryFile can give a file of the directory
Paths == 1..MaxFiles

\* filepath = "" (or None)
EmptyPath == 0

Range(s) == {s[k] : k \in 1..Len(s)}

\* a variant that leaves the list as it is
KeepTracked(s, x) == s

\* if filepath in list: list.remove(filepath), which drops the first occurrence
RemoveFirst(s, x) ==
    IF x \notin Range(s) THEN s
    ELSE LET k == CHOOSE j \in 1..Len(s) : s[j] = x /\ \A h \in 1..(j - 1) : s[h] # x
         IN  SubSeq(s, 1, k - 1) \o SubSeq(s, k + 1, Len(s))

\* what is kept of a call: the method, its argument or the name it made, its
\* result, and the directory and the list as they were when it was entered
Returned(op, path, result) ==
    [op |-> op, path |-> path, result |-> result, existed |-> path \in files,
     tracked |-> tracked]

CacheInit ==
    /\ pc = "cache"
    /\ req = << >>
    /\ i = 0
    /\ target_latents = << >>
    /\ step_index = 0
    /\ momentum_buffer = 0
    /\ iters = << >>
    /\ err = ""
    /\ T2MIdle
    /\ EditIdle
    /\ SeedsIdle
    /\ CallIdle
    /\ NodeIdle

\* lines 58-70: a new file of a name not in use, saved and tracked
CacheAudioTensor ==
    /\ pc = "cache"
    /\ \E path \in Paths \ files :
          /\ files' = files \cup {path}
          /\ tracked' = Append(tracked, path)
          /\ ret' = Returned("cache_audio_tensor", path, "path")
    /\ UNCHANGED << pc, req, i, target_latents, step_index, momentum_buffer, iters, err, ap >>
    /\ UNCHANGED << t2mVars, editVars, seedVars, callVars >>

\* lines 71-78: torchaudio.save raises; the new file is removed if os.remove
\* succeeds, and RuntimeError leaves the method
CacheAudioTensorFails ==
    /\ pc = "cache"
    /\ \E path \in Paths \ files, removed \in BOOLEAN :
          /\ files' = IF removed THEN files ELSE files \cup {path}
          /\ ret' = Returned("cache_audio_tensor", path, "RuntimeError")
    /\ UNCHANGED << pc, req, i, target_latents, step_index, momentum_buffer, iters, err,
                    tracked, ap >>
    /\ UNCHANGED << t2mVars, editVars, seedVars, callVars >>

\* lines 90-91 and 100-103: an empty path, or a path that does not exist
CleanupFileAbsent ==
    /\ pc = "cache"
    /\ \E path \in (Paths \cup {EmptyPath}) \ files :
          /\ tracked' = IF path = EmptyPath THEN tracked ELSE RemoveFirst(tracked, path)
          /\ ret' = Returned("cleanup_file", path, TRUE)
    /\ UNCHANGED << pc, req, i, target_latents, step_index, momentum_buffer, iters, err,
                    files, ap >>
    /\ UNCHANGED << t2mVars, editVars, seedVars, callVars >>

\* lines 92-97: os.remove succeeds
CleanupFileRemoves ==
    /\ pc = "cache"
    /\ \E path \in files :
          /\ files' = files \ {path}
          /\ tracked' = RemoveFirst(tracked, path)
          /\ ret' = Returned("cleanup_file", path, TRUE)
    /\ UNCHANGED << pc, req, i, target_latents, step_index, momentum_buffer, iters, err, ap >>
    /\ UNCHANGED << t2mVars, editVars, seedVars, callVars >>

\* lines 98-99: os.remove raises OSError
CleanupFileFails ==
    /\ pc = "cache"
    /\ \E path \in files : ret' = Returned("cleanup_file", path, FALSE)
    /\ UNCHANGED << pc, req, i, target_latents, step_index, momentum_buffer, iters, err,
                    files, tracked, ap >>
    /\ UNCHANGED << t2mVars, editVars, seedVars, callVars >>

\* lines 105-112: cleanup_file on every tracked path, os.remove failing on the
\* paths of `failed`, then the list is cleared
CleanupAllTrackedFiles ==
    /\ pc = "cache"
    /\ \E failed \in SUBSET (Range(tracked) \cap files) :
          files' = files \ (Range(tracked) \ failed)
    /\ tracked' = << >>
    /\ ret' = Returned("cleanup_all_tracked_files", EmptyPath, "None")
    /\ UNCHANGED << pc, req, i, target_latents, step_index, momentum_buffer, iters, err, ap >>
    /\ UNCHANGED << t2mVars, editVars, seedVars, callVars >>

CacheNext ==
    \/ CacheAudioTensor
    \/ CacheAudioTensorFails
    \/ CleanupFileAbsent
    \/ CleanupFileRemoves
    \/ CleanupFileFails
    \/ CleanupAllTrackedFiles

SpecCache == CacheInit /\ [][CacheNext]_vars

CleanupFileReturned == ret # << >> /\ ret.op = "cleanup_file"

\* C21: cleanup_file returns True when the path is empty, when the file did
\* not exist and when it was deleted, and False when the deletion failed;
\* after True the file is gone and the path is not tracked, after False the
\* file still exists and the tracked list is as it was.
C21_CleanupFileResult ==
    CleanupFileReturned =>
        /\ ret.result \in BOOLEAN
        /\ ret.result = TRUE =>
               /\ ret.path = EmptyPath \/ ~ret.existed \/ ret.path \notin files
               /\ ret.path \notin files
               /\ ret.path \notin Range(tracked)
               /\ \A p \in Range(ret.tracked) \ {ret.path} : p \in Range(tracked)
        /\ ret.result = FALSE =>
               /\ ret.existed
               /\ ret.path \in files
               /\ tracked = ret.tracked

C21_Witness ==
    /\ CleanupFileReturned
    /\ ret.result = TRUE
    /\ ret.existed
    /\ Len(ret.tracked) = MaxFiles
    /\ ret.tracked[2] = ret.path
    /\ tracked = << ret.tracked[1], ret.tracked[3] >>
    /\ files = Range(tracked)

(***************************************************************************)
(* The nodes ACEStepGen, ACEStepRepainting, ACEStepEdit and ACEStepExtend  *)
(* (src/ace_step_nodes.py): the global pipeline handle ap and the files    *)
(* each invocation caches.                                                 *)
(***************************************************************************)
Nodes == {"ACEStepGen", "ACEStepRepainting", "ACEStepEdit", "ACEStepExtend"}

\* the nodes that cache a source clip before anything else
SourceNodes == Nodes \ {"ACEStepGen"}

\* the inputs of an invocation that matter here; ref_audio only for ACEStepGen
NodeRequests ==
    {[node |-> n, unload_model |-> u, ref_audio |-> a] :
        n \in Nodes, u \in BOOLEAN, a \in BOOLEAN}

\* an invocation under way: its inputs, the handle at entry, whether it
\* loaded the model, and the file it cached (EmptyPath for none)
Frame(c, entry, loaded, path) ==
    [node |-> c.node, unload_model |-> c.unload_model, entry |-> entry,
     loaded |-> loaded, path |-> path]

\* an invocation that ended, with the handle and the directory it left
Ended(f, outcome, handle, dir) ==
    [node |-> f.node, unload_model |-> f.unload_model, entry |-> f.entry,
     loaded |-> f.loaded, path |-> f.path, outcome |-> outcome,
     ap |-> handle, files |-> dir]

\* exceptions __call__ lets out: the decay's division (line 923) and the
\* parse of manual_seeds (line 150)
PipelineErrors == {"ZeroDivisionError", "ValueError"}

\* if unload_model: ap.cleanup(); ap = None
Unload(unload_model, handle) == IF unload_model THEN "None" ELSE handle

NodesInit ==
    /\ pc = "node_idle"
    /\ req = << >>
    /\ i = 0
    /\ target_latents = << >>
    /\ step_index = 0
    /\ momentum_buffer = 0
    /\ iters = << >>
    /\ err = ""
    /\ T2MIdle
    /\ EditIdle
    /\ SeedsIdle
    /\ CallIdle
    /\ NodeIdle

\* the node function is entered: ac = AudioCacher(cache_dir=cache_dir) starts
\* an empty list; the source nodes cache first, ACEStepGen loads first
InvokeNode ==
    /\ pc = "node_idle"
    /\ i < MaxInvocations
    /\ \E c \in NodeRequests :
          /\ c.ref_audio => c.node = "ACEStepGen"
          /\ req' = c
          /\ ret' = Frame(c, ap, FALSE, EmptyPath)
          /\ pc' = IF c.node \in SourceNodes THEN "node_cache" ELSE "node_load"
    /\ tracked' = << >>
    /\ err' = ""
    /\ UNCHANGED << i, target_latents, step_index, momentum_buffer, iters, files, ap >>
    /\ UNCHANGED << t2mVars, editVars, seedVars, callVars >>

\* ac.cache_audio_tensor(...) returns the path of a new file
NodeCacheAudio ==
    /\ pc = "node_cache"
    /\ \E path \in Paths \ files :
          /\ files' = files \cup {path}
          /\ tracked' = Append(tracked, path)
          /\ ret' = [ret EXCEPT !.path = path]
    /\ pc' = IF req.node \in SourceNodes THEN "node_load" ELSE "node_call"
    /\ UNCHANGED << req, i, target_latents, step_index, momentum_buffer, iters, err, ap >>
    /\ UNCHANGED << t2mVars, editVars, seedVars, callVars >>

\* ac.cache_audio_tensor(...) raises RuntimeError, which leaves the node; the
\* half-written file stays when its removal fails too
NodeCacheAudioFails ==
    /\ pc = "node_cache"
    /\ \E path \in Paths \ files, removed \in BOOLEAN :
          /\ files' = IF removed THEN files ELSE files \cup {path}
          /\ iters' = Append(iters, Ended(ret, "RuntimeError", ap, files'))
    /\ pc' = "node_idle"
    /\ err' = "RuntimeError"
    /\ i' = i + 1
    /\ UNCHANGED << req, target_latents, step_index, momentum_buffer, tracked, ap, ret >>
    /\ UNCHANGED << t2mVars, editVars, seedVars, callVars >>

\* if ap is None: ap = AP(*load_model(), ...)
NodeLoadModel ==
    /\ pc = "node_load"
    /\ ap = "None"
    /\ ap' = "loaded"
    /\ ret' = [ret EXCEPT !.loaded = TRUE]
    /\ pc' = IF req.node = "ACEStepGen" /\ req.ref_audio THEN "node_cache" ELSE "node_call"
    /\ UNCHANGED << req, i, target_latents, step_index, momentum_buffer, iters, err,
                    files, tracked >>
    /\ UNCHANGED << t2mVars, editVars, seedVars, callVars >>

\* if ap is None: not taken, the handle of an earlier invocation is used
NodeReuseModel ==
    /\ pc = "node_load"
    /\ ap # "None"
    /\ pc' = IF req.node = "ACEStepGen" /\ req.ref_audio THEN "node_cache" ELSE "node_call"
    /\ UNCHANGED << req, i, target_latents, step_index, momentum_buffer, iters, err >>
    /\ UNCHANGED << t2mVars, editVars, seedVars, callVars >>
    /\ UNCHANGED nodeVars

\* audio_output = ap(...) returns; ACEStepGen goes on to the unload, the
\* source nodes to ac.cleanup_file(src_audio_path)
NodePipelineReturns ==
    /\ pc = "node_call"
    /\ pc' = IF req.node = "ACEStepGen" THEN "node_unload" ELSE "node_cleanup"
    /\ UNCHANGED << req, i, target_latents, step_index, momentum_buffer, iters, err >>
    /\ UNCHANGED << t2mVars, editVars, seedVars, callVars >>
    /\ UNCHANGED nodeVars

\* audio_output = ap(...) raises; nothing in the node catches it
NodePipelineRaises ==
    /\ pc = "node_call"
    /\ \E e \in PipelineErrors :
          /\ err' = e
          /\ iters' = Append(iters, Ended(ret, e, ap, files))
    /\ pc' = "node_idle"
    /\ i' = i + 1
    /\ UNCHANGED << req, target_latents, step_index, momentum_buffer >>
    /\ UNCHANGED << t2mVars, editVars, seedVars, callVars >>
    /\ UNCHANGED nodeVars

\* ac.cleanup_file(src_audio_path); its result is not looked at
NodeCleanupFile ==
    /\ pc = "node_cleanup"
    /\ \E removed \in BOOLEAN :
          /\ files' = IF removed THEN files \ {ret.path} ELSE files
          /\ tracked' = IF removed THEN RemoveFirst(tracked, ret.path) ELSE tracked
    /\ pc' = "node_unload"
    /\ UNCHANGED << req, i, target_latents, step_index, momentum_buffer, iters, err, ap, ret >>
    /\ UNCHANGED << t2mVars, editVars, seedVars, callVars >>

\* if unload_model: ap.cleanup(); ap = None; then the node returns
NodeReturns ==
    /\ pc = "node_unload"
    /\ ap' = Unload(req.unload_model, ap)
    /\ iters' = Append(iters, Ended(ret, "returned", ap', files))
    /\ pc' = "node_idle"
    /\ i' = i + 1
    /\ UNCHANGED << req, target_latents, step_index, momentum_buffer, err, files, tracked, ret >>
    /\ UNCHANGED << t2mVars, editVars, seedVars, callVars >>

NodesNext ==
    \/ InvokeNode
    \/ NodeCacheAudio
    \/ NodeCacheAudioFails
    \/ NodeLoadModel
    \/ NodeReuseModel
    \/ NodePipelineReturns
    \/ NodePipelineRaises
    \/ NodeCleanupFile
    \/ NodeReturns

SpecNodes == NodesInit /\ [][NodesNext]_vars

\* C29: the model is loaded exactly when the handle is None at entry; after an
\* invocation with unload_model = True ends, returning or raising, the handle
\* is None; after one with unload_model = False the handle is kept and the
\* next invocation does not load again.
C29_HandleFollowsUnloadModel ==
    pc = "node_idle" =>
        \A k \in 1..Len(iters) :
            /\ iters[k].loaded => iters[k].entry = "None"
            /\ (iters[k].entry = "None" /\ iters[k].outcome = "returned") => iters[k].loaded
            /\ iters[k].unload_model => iters[k].ap = "None"
            /\ (~iters[k].unload_model /\ iters[k].outcome = "returned") =>
                   /\ iters[k].ap = "loaded"
                   /\ k < Len(iters) => ~iters[k + 1].loaded

\* C30: every file an invocation made through cache_audio_tensor is deleted by
\* the time the invocation ends, returning or raising, and between
\* invocations the cache directory holds no such file.
C30_CachedFilesDeleted ==
    pc = "node_idle" =>
        /\ \A k \in 1..Len(iters) :
               iters[k].path # EmptyPath => iters[k].path \notin iters[k].files
        /\ files = {}

====
